---- MODULE Spec2Model ----
(***************************************************************************)
(* A model of the urban_flow traffic simulation: signal plans, the         *)
(* fixed-time signal controller with preemption override, the preemption   *)
(* manager on the event bus, and the simulator's tick.                     *)
(***************************************************************************)
EXTENDS Integers, Sequences, FiniteSets, TLC

VARIABLES
    plan,           \* SignalPlan.phases of the plan under lookup
    lookups,        \* results of phase_at_tick calls made so far, by tick
    ctl,            \* FixedTimeController per intersection id
    signal_states,  \* Intersection.signal_states per intersection id
    twin_states,    \* signal_states of a twin intersection whose controller is never preempted
    active,         \* PreemptionManager._active
    published,      \* events published on the EventBus by the last call, in order
    last,           \* the last call made: operation, arguments, outcome
    network,        \* the RoadNetwork the simulator and its spawner were given
    clock,          \* SimulationClock._current_tick
    counter,        \* VehicleSpawner._counter
    active_vehicles,   \* Simulator._active_vehicles, in insertion order
    arrived_vehicles,  \* Simulator._arrived_vehicles
    handlers,       \* EventBus._handlers: event kind -> handlers in subscription order
    summary,        \* MetricsCollector._summary
    delivered,      \* the handler invocations of the last call, in order
    log             \* the events a recording subscriber has received so far, in order

lookupVars == <<plan, lookups>>
simVars == <<network, clock, counter, active_vehicles, arrived_vehicles>>

busVars == <<handlers, summary, delivered, log>>

vars == <<plan, lookups, ctl, signal_states, twin_states, active, published,
          last, network, clock, counter, active_vehicles, arrived_vehicles,
          handlers, summary, delivered, log>>

(***************************************************************************)
(* Bounds                                                                  *)
(***************************************************************************)
MaxPhases == 3      \* longest plan in the lookup specification
MaxDur == 2         \* longest phase duration in the lookup specification
MaxLookupTick == 7  \* largest tick looked up
CtlMaxPhases == 2   \* longest plan given to a controller
MaxTick == 4        \* largest tick passed to update
MaxEventTick == 1   \* largest tick carried by an EmergencyDetected event or a release
MaxClock == 3       \* number of ticks the simulator is run for
MaxRoadLength == 1  \* largest road_length given to create_grid
MaxArrived == 2     \* most vehicles in the arrived registry a run starts from
MaxWait == 1        \* largest wait_ticks of such a vehicle
MaxAdvance == 4     \* most advance_route calls made on one vehicle
MaxSubscriptions == 2  \* most handlers subscribed for one event kind
MaxCounted == 2     \* most events the collector counts in one run
MaxRunTicks == 2    \* largest num_ticks given to one run call
MaxRoads == 4       \* most add_road calls on one hand-built network
GreenTicks == 2     \* green_duration given to default_four_way
YellowTicks == 1    \* yellow_duration given to default_four_way

(***************************************************************************)
(* core/types.py                                                           *)
(***************************************************************************)
Direction == {"NORTH", "SOUTH", "EAST", "WEST"}

RED == "RED"
YELLOW == "YELLOW"
GREEN == "GREEN"

None == "None"

(***************************************************************************)
(* core/signal.py                                                          *)
(***************************************************************************)
SignalPhase(g, d, s) == [green_directions |-> g, duration |-> d, state |-> s]

RECURSIVE SumDurations(_, _)
\* sum of the durations of the first k phases
SumDurations(phases, k) ==
    IF k = 0 THEN 0 ELSE SumDurations(phases, k - 1) + phases[k].duration

cycle_length(phases) == SumDurations(phases, Len(phases))

RECURSIVE ScanPhases_OffByOne(_, _, _, _)
\* the loop of phase_at_tick with `offset <= elapsed` for `offset < elapsed`
ScanPhases_OffByOne(phases, offset, k, elapsed) ==
    IF k > Len(phases) THEN Len(phases)
    ELSE LET e == elapsed + phases[k].duration
         IN  IF offset <= e THEN k
             ELSE ScanPhases_OffByOne(phases, offset, k + 1, e)

RECURSIVE ScanPhases(_, _, _, _)
\* the loop of phase_at_tick from phase k on, `elapsed` ticks already counted;
\* the index of the phase returned (the last phase when the loop falls through)
ScanPhases(phases, offset, k, elapsed) ==
    IF k > Len(phases) THEN Len(phases)
    ELSE LET e == elapsed + phases[k].duration
         IN  IF offset < e THEN k
             ELSE ScanPhases(phases, offset, k + 1, e)

\* SignalPlan.phase_at_tick: the index of the phase returned, or the error raised
phase_at_tick(phases, tick) ==
    IF Len(phases) = 0 THEN [err |-> "ValueError", index |-> 0]
    ELSE IF cycle_length(phases) = 0 THEN [err |-> "ZeroDivisionError", index |-> 0]
    ELSE [err |-> None,
          index |-> ScanPhases(phases, tick % cycle_length(phases), 1, 0)]

NS == {"NORTH", "SOUTH"}
EW == {"EAST", "WEST"}

\* SignalPlan.default_four_way(green_duration, yellow_duration)
default_four_way(green_duration, yellow_duration) ==
    << SignalPhase(NS, green_duration, GREEN),
       SignalPhase(NS, yellow_duration, YELLOW),
       SignalPhase(EW, green_duration, GREEN),
       SignalPhase(EW, yellow_duration, YELLOW) >>

(***************************************************************************)
(* Phase lookup as a pure function: plans of up to MaxPhases phases, the   *)
(* phases shaped as in default_four_way, every duration in 0..MaxDur.      *)
(***************************************************************************)
FourWayShape(k) ==
    CASE k % 4 = 1 -> [g |-> NS, s |-> GREEN]
      [] k % 4 = 2 -> [g |-> NS, s |-> YELLOW]
      [] k % 4 = 3 -> [g |-> EW, s |-> GREEN]
      [] OTHER     -> [g |-> EW, s |-> YELLOW]

LookupPlans ==
    UNION { { [k \in 1..n |-> SignalPhase(FourWayShape(k).g, durs[k], FourWayShape(k).s)]
              : durs \in [1..n -> 0..MaxDur] }
            : n \in 0..MaxPhases }

NotCalled == [err |-> "NotCalled", index |-> 0]

\* state of the parts of the program a specification does not run
IdleController ==
    /\ ctl = << >>
    /\ signal_states = << >>
    /\ twin_states = << >>
    /\ active = << >>
    /\ published = << >>
    /\ last = [op |-> "init"]

IdleSimulator ==
    /\ network = << >>
    /\ clock = 0
    /\ counter = 0
    /\ active_vehicles = << >>
    /\ arrived_vehicles = << >>

IdleLookup ==
    /\ plan = << >>
    /\ lookups = << >>

IdleBus ==
    /\ handlers = << >>
    /\ summary = << >>
    /\ delivered = << >>
    /\ log = << >>

InitPlan ==
    /\ IdleBus
    /\ plan \in LookupPlans
    /\ lookups = [t \in 0..MaxLookupTick |-> NotCalled]
    /\ IdleController
    /\ IdleSimulator

\* one call plan.phase_at_tick(t)
PhaseLookup(t) ==
    /\ lookups[t] = NotCalled
    /\ lookups' = [lookups EXCEPT ![t] = phase_at_tick(plan, t)]
    /\ UNCHANGED <<busVars, plan, ctl, signal_states, twin_states, active, published, last,
                   simVars>>

NextPlan == \E t \in 0..MaxLookupTick : PhaseLookup(t)

SpecPlan == InitPlan /\ [][NextPlan]_vars

(***************************************************************************)
(* C10  Cyclic phase lookup.  For a plan whose durations are non-negative  *)
(* with positive sum, phase_at_tick(T) returns the first phase in plan     *)
(* order whose cumulative end is strictly greater than T mod cycle_length; *)
(* so the lookup at T and at T + cycle_length agree, a phase of duration 0 *)
(* is never returned, and over the offsets of one cycle each phase is      *)
(* returned for exactly `duration` of them.                                *)
(***************************************************************************)
Called(t) == t \in DOMAIN lookups /\ lookups[t] # NotCalled

PositiveCycle == Len(plan) > 0 /\ cycle_length(plan) > 0

C10_CyclicPhaseLookup ==
    PositiveCycle =>
        LET cycle == cycle_length(plan) IN
        /\ \A t \in DOMAIN lookups : Called(t) =>
              LET off == t % cycle
                  r == lookups[t]
              IN  /\ r.err = None
                  /\ r.index \in 1..Len(plan)
                  /\ SumDurations(plan, r.index) > off
                  /\ \A j \in 1..(r.index - 1) : SumDurations(plan, j) <= off
                  /\ plan[r.index].duration > 0
                  /\ Called(t + cycle) => lookups[t + cycle] = r
        /\ (\A t \in 0..(cycle - 1) : Called(t)) =>
              \A k \in 1..Len(plan) :
                  Cardinality({t \in 0..(cycle - 1) : lookups[t].index = k})
                      = plan[k].duration

\* every tick has been looked up in a plan with a zero-duration phase between
\* two positive ones, whose cycle fits twice into the ticks looked up
C10_Witness ==
    /\ PositiveCycle
    /\ Len(plan) = 3
    /\ plan[1].duration > 0 /\ plan[2].duration = 0 /\ plan[3].duration > 1
    /\ 2 * cycle_length(plan) <= MaxLookupTick + 1
    /\ \A t \in 0..MaxLookupTick : Called(t)
    /\ lookups[cycle_length(plan)].index = 1
    /\ lookups[plan[1].duration].index = 3

(***************************************************************************)
(* core/intersection.py                                                    *)
(***************************************************************************)
\* Intersection.__post_init__: every direction RED
InitialSignalStates == [d \in Direction |-> RED]

set_signal(states, direction, state) == [states EXCEPT ![direction] = state]

set_all_red(states) == [d \in Direction |-> RED]

(***************************************************************************)
(* signals/fixed_time.py                                                   *)
(***************************************************************************)
\* FixedTimeController(plan) as constructed
FixedTimeController(phases) ==
    [plan |-> phases, preemption_active |-> FALSE, preemption_direction |-> None]

request_preemption(c, direction) ==
    [c EXCEPT !.preemption_active = TRUE, !.preemption_direction = direction]

\* release_preemption that does nothing
release_preemption_Noop(c) == c

release_preemption(c) ==
    [c EXCEPT !.preemption_active = FALSE, !.preemption_direction = None]

\* _apply_phase without the call of set_all_red
apply_phase_NoClear(states, phase) ==
    [d \in Direction |->
        IF d \in phase.green_directions THEN phase.state ELSE states[d]]

\* _apply_phase: all RED, then the phase's state on each of its green directions
apply_phase(states, phase) ==
    LET cleared == set_all_red(states)
    IN  [d \in Direction |->
            IF d \in phase.green_directions THEN phase.state ELSE cleared[d]]

\* _apply_preemption without the call of set_all_red
apply_preemption_NoClear(c, states) ==
    [states |-> set_signal(states, c.preemption_direction, GREEN),
     ret |-> SignalPhase({c.preemption_direction}, 0, GREEN)]

\* _apply_preemption: the signal states it leaves and the phase it returns
apply_preemption(c, states) ==
    [states |-> set_signal(set_all_red(states), c.preemption_direction, GREEN),
     ret |-> SignalPhase({c.preemption_direction}, 0, GREEN)]

\* update that ends the preemption once it has applied it
update_AutoRelease(c, states, tick) ==
    IF c.preemption_active /\ c.preemption_direction # None
    THEN LET r == apply_preemption(c, states)
         IN  [ctl |-> release_preemption(c), states |-> r.states,
              ret |-> r.ret, err |-> None]
    ELSE LET r == phase_at_tick(c.plan, tick)
         IN  IF r.err # None
             THEN [ctl |-> c, states |-> states, ret |-> None, err |-> r.err]
             ELSE [ctl |-> c, states |-> apply_phase(states, c.plan[r.index]),
                   ret |-> c.plan[r.index], err |-> None]

\* FixedTimeController.update: the controller and signal states it leaves, the
\* phase it returns, or the error phase_at_tick raises (nothing written then)
update(c, states, tick) ==
    IF c.preemption_active /\ c.preemption_direction # None
    THEN LET r == apply_preemption(c, states)
         IN  [ctl |-> c, states |-> r.states, ret |-> r.ret, err |-> None]
    ELSE LET r == phase_at_tick(c.plan, tick)
         IN  IF r.err # None
             THEN [ctl |-> c, states |-> states, ret |-> None, err |-> r.err]
             ELSE [ctl |-> c, states |-> apply_phase(states, c.plan[r.index]),
                   ret |-> c.plan[r.index], err |-> None]

(***************************************************************************)
(* One controller driven directly: update, request_preemption and          *)
(* release_preemption in any order, on any plan of up to CtlMaxPhases      *)
(* phases of PhasePool (the empty plan and zero-cycle plans included).  A  *)
(* twin controller with the same plan receives the same update calls on    *)
(* its own intersection and is never preempted.  Each update is            *)
(* also compared with the update of a freshly constructed controller with  *)
(* the same plan on the same intersection.                                 *)
(***************************************************************************)
PhasePool ==
    { SignalPhase(NS, 2, GREEN), SignalPhase(NS, 1, YELLOW),
      SignalPhase(EW, 1, GREEN), SignalPhase(EW, 0, YELLOW) }

CtlPlans == UNION { [1..n -> PhasePool] : n \in 0..CtlMaxPhases }

\* the plans a controller is constructed with: those, and the plan of
\* FixedTimeController() with no argument
ControllerPlans == CtlPlans \cup {default_four_way(GreenTicks, YellowTicks)}

I00 == <<0, 0>>

InitCtl ==
    /\ IdleBus
    /\ \E p \in ControllerPlans : ctl = [i \in {I00} |-> FixedTimeController(p)]
    /\ signal_states = [i \in {I00} |-> InitialSignalStates]
    /\ twin_states = [i \in {I00} |-> InitialSignalStates]
    /\ active = << >>
    /\ published = << >>
    /\ last = [op |-> "init"]
    /\ IdleLookup
    /\ IdleSimulator

\* controller.update(intersection, tick) for intersection i and its controller
Update(i, t) ==
    LET r == update(ctl[i], signal_states[i], t)
    IN  /\ ctl' = [ctl EXCEPT ![i] = r.ctl]
        /\ signal_states' = [signal_states EXCEPT ![i] = r.states]
        /\ published' = << >>
        /\ last' = [op |-> "update", iid |-> i, tick |-> t, err |-> r.err,
                    ret |-> r.ret, prev |-> last.op,
                    prev_granted |-> last.op = "detected" /\ last.iid = i
                                        /\ ~last.had_entry]
        /\ UNCHANGED <<busVars, lookupVars, twin_states, active, simVars>>

\* the same call, made as well on the twin intersection by the twin controller
\* and compared with the call a freshly constructed controller would make
UpdateWithTwin(i, t) ==
    LET r == update(ctl[i], signal_states[i], t)
        fresh == update(FixedTimeController(ctl[i].plan), signal_states[i], t)
        tw == update(FixedTimeController(ctl[i].plan), twin_states[i], t)
    IN  /\ ctl' = [ctl EXCEPT ![i] = r.ctl]
        /\ signal_states' = [signal_states EXCEPT ![i] = r.states]
        /\ twin_states' = [twin_states EXCEPT ![i] = tw.states]
        /\ published' = << >>
        /\ last' = [op |-> "update", iid |-> i, tick |-> t,
                    before |-> signal_states[i], err |-> r.err,
                    ret |-> r.ret, twin_ret |-> tw.ret,
                    fresh |-> [err |-> fresh.err, ret |-> fresh.ret,
                               states |-> fresh.states],
                    prev |-> last.op, prev_was_active |->
                        /\ last.op \in {"request_preemption", "release_preemption"}
                        /\ last.was_active]
        /\ UNCHANGED <<busVars, lookupVars, active, simVars>>

\* request_preemption that turns the direction GREEN at once
RequestPreemption_WritesSignals(i, d) ==
    /\ ctl' = [ctl EXCEPT ![i] = request_preemption(ctl[i], d)]
    /\ signal_states' =
          [signal_states EXCEPT ![i] = set_signal(set_all_red(@), d, GREEN)]
    /\ published' = << >>
    /\ last' = [op |-> "request_preemption", iid |-> i, direction |-> d,
                was_active |-> ctl[i].preemption_active]
    /\ UNCHANGED <<busVars, lookupVars, twin_states, active, simVars>>

\* controller.request_preemption(d), called directly
RequestPreemption(i, d) ==
    /\ ctl' = [ctl EXCEPT ![i] = request_preemption(ctl[i], d)]
    /\ published' = << >>
    /\ last' = [op |-> "request_preemption", iid |-> i, direction |-> d,
                was_active |-> ctl[i].preemption_active]
    /\ UNCHANGED <<busVars, lookupVars, signal_states, twin_states, active, simVars>>

\* controller.release_preemption(), called directly
ReleasePreemption(i) ==
    /\ ctl' = [ctl EXCEPT ![i] = release_preemption(ctl[i])]
    /\ published' = << >>
    /\ last' = [op |-> "release_preemption", iid |-> i,
                was_active |-> ctl[i].preemption_active]
    /\ UNCHANGED <<busVars, lookupVars, signal_states, twin_states, active, simVars>>

NextCtl ==
    \/ \E i \in DOMAIN ctl, t \in 0..MaxTick : UpdateWithTwin(i, t)
    \/ \E i \in DOMAIN ctl, d \in Direction : RequestPreemption(i, d)
    \/ \E i \in DOMAIN ctl : ReleasePreemption(i)

SpecCtl == InitCtl /\ [][NextCtl]_vars

(***************************************************************************)
(* engine/events.py: the events the preemption manager receives and        *)
(* publishes                                                               *)
(***************************************************************************)
EmergencyDetected(tick, vehicle_id, intersection_id, approach_direction, distance_cells) ==
    [kind |-> "EmergencyDetected", tick |-> tick, vehicle_id |-> vehicle_id,
     intersection_id |-> intersection_id,
     approach_direction |-> approach_direction, distance_cells |-> distance_cells]

PreemptionStarted(tick, vehicle_id, intersection_id, direction) ==
    [kind |-> "PreemptionStarted", tick |-> tick, vehicle_id |-> vehicle_id,
     intersection_id |-> intersection_id, direction |-> direction]

PreemptionEnded(tick, vehicle_id, intersection_id) ==
    [kind |-> "PreemptionEnded", tick |-> tick, vehicle_id |-> vehicle_id,
     intersection_id |-> intersection_id]

(***************************************************************************)
(* emergency/preemption.py                                                 *)
(***************************************************************************)
ActivePreemption(vehicle_id, intersection_id, direction) ==
    [vehicle_id |-> vehicle_id, intersection_id |-> intersection_id,
     direction |-> direction]

\* dict[key] = value
DictSet(dict, key, value) ==
    [k \in DOMAIN dict \cup {key} |-> IF k = key THEN value ELSE dict[k]]

\* dict.pop(key, None): the dict that is left
DictPop(dict, key) == [k \in DOMAIN dict \ {key} |-> dict[k]]

\* _on_emergency_detected without the `controller is None` check
on_emergency_detected_NoControllerCheck(controllers, act, event) ==
    LET iid == event.intersection_id
    IN  IF iid \in DOMAIN act
        THEN [controllers |-> controllers, active |-> act, published |-> << >>]
        ELSE [controllers |->
                  [i \in DOMAIN controllers |->
                      IF i = iid
                      THEN request_preemption(controllers[i], event.approach_direction)
                      ELSE controllers[i]],
              active |->
                  DictSet(act, iid,
                      ActivePreemption(event.vehicle_id, iid, event.approach_direction)),
              published |->
                  << PreemptionStarted(event.tick, event.vehicle_id, iid,
                                       event.approach_direction) >>]

\* _on_emergency_detected without the `iid in self._active` check
on_emergency_detected_NoGuard(controllers, act, event) ==
    LET iid == event.intersection_id
    IN  IF iid \notin DOMAIN controllers
        THEN [controllers |-> controllers, active |-> act, published |-> << >>]
        ELSE [controllers |->
                  [controllers EXCEPT
                      ![iid] = request_preemption(@, event.approach_direction)],
              active |->
                  DictSet(act, iid,
                      ActivePreemption(event.vehicle_id, iid, event.approach_direction)),
              published |->
                  << PreemptionStarted(event.tick, event.vehicle_id, iid,
                                       event.approach_direction) >>]

\* _on_emergency_detected that records the entry without calling the controller
on_emergency_detected_NoRequest(controllers, act, event) ==
    LET iid == event.intersection_id
    IN  IF iid \in DOMAIN act \/ iid \notin DOMAIN controllers
        THEN [controllers |-> controllers, active |-> act, published |-> << >>]
        ELSE [controllers |-> controllers,
              active |->
                  DictSet(act, iid,
                      ActivePreemption(event.vehicle_id, iid, event.approach_direction)),
              published |->
                  << PreemptionStarted(event.tick, event.vehicle_id, iid,
                                       event.approach_direction) >>]

\* PreemptionManager._on_emergency_detected: the controllers and entries it
\* leaves and the events it publishes
on_emergency_detected(controllers, act, event) ==
    LET iid == event.intersection_id
    IN  IF iid \in DOMAIN act
        THEN [controllers |-> controllers, active |-> act, published |-> << >>]
        ELSE IF iid \notin DOMAIN controllers
        THEN [controllers |-> controllers, active |-> act, published |-> << >>]
        ELSE [controllers |->
                  [controllers EXCEPT
                      ![iid] = request_preemption(@, event.approach_direction)],
              active |->
                  DictSet(act, iid,
                      ActivePreemption(event.vehicle_id, iid, event.approach_direction)),
              published |->
                  << PreemptionStarted(event.tick, event.vehicle_id, iid,
                                       event.approach_direction) >>]

\* release without the call of controller.release_preemption
release_KeepsOverride(controllers, act, intersection_id, tick) ==
    IF intersection_id \notin DOMAIN act
    THEN [controllers |-> controllers, active |-> act, published |-> << >>]
    ELSE [controllers |-> controllers,
          active |-> DictPop(act, intersection_id),
          published |->
              << PreemptionEnded(tick, act[intersection_id].vehicle_id,
                                 intersection_id) >>]

\* release that publishes PreemptionEnded also when there was no entry
release_AlwaysPublishes(controllers, act, intersection_id, tick) ==
    [controllers |->
        IF intersection_id \in DOMAIN controllers
        THEN [controllers EXCEPT ![intersection_id] = release_preemption(@)]
        ELSE controllers,
     active |-> DictPop(act, intersection_id),
     published |->
        << PreemptionEnded(tick,
               IF intersection_id \in DOMAIN act
               THEN act[intersection_id].vehicle_id ELSE None,
               intersection_id) >>]

\* release that clears the whole map of entries
release_ClearsAll(controllers, act, intersection_id, tick) ==
    IF intersection_id \notin DOMAIN act
    THEN [controllers |-> controllers, active |-> act, published |-> << >>]
    ELSE [controllers |->
              IF intersection_id \in DOMAIN controllers
              THEN [controllers EXCEPT ![intersection_id] = release_preemption(@)]
              ELSE controllers,
          active |-> << >>,
          published |->
              << PreemptionEnded(tick, act[intersection_id].vehicle_id,
                                 intersection_id) >>]

\* release that publishes no PreemptionEnded
release_ForgetsToPublish(controllers, act, intersection_id, tick) ==
    IF intersection_id \notin DOMAIN act
    THEN [controllers |-> controllers, active |-> act, published |-> << >>]
    ELSE [controllers |->
              IF intersection_id \in DOMAIN controllers
              THEN [controllers EXCEPT ![intersection_id] = release_preemption(@)]
              ELSE controllers,
          active |-> DictPop(act, intersection_id),
          published |-> << >>]

\* PreemptionManager.release
release(controllers, act, intersection_id, tick) ==
    IF intersection_id \notin DOMAIN act
    THEN [controllers |-> controllers, active |-> act, published |-> << >>]
    ELSE [controllers |->
              IF intersection_id \in DOMAIN controllers
              THEN [controllers EXCEPT ![intersection_id] = release_preemption(@)]
              ELSE controllers,
          active |-> DictPop(act, intersection_id),
          published |->
              << PreemptionEnded(tick, act[intersection_id].vehicle_id,
                                 intersection_id) >>]

(***************************************************************************)
(* The preemption manager over the controllers of a 1 x 2 grid, each with  *)
(* the four-way plan: EmergencyDetected events published on the bus (for   *)
(* the two intersections and for an id that has no controller), release    *)
(* calls, and the controllers' updates, in any order.                      *)
(***************************************************************************)

I01 == <<0, 1>>
UnknownId == <<9, 9>>
GridIds == {I00, I01}
VehicleIds == {<<"EV", 1>>, <<"EV", 2>>}
ApproachDirections == {"NORTH", "EAST"}

\* the intersection ids events and release calls name
EventIds == DOMAIN ctl \cup {UnknownId}

InitManager ==
    /\ IdleBus
    /\ ctl = [i \in GridIds |->
                 FixedTimeController(default_four_way(GreenTicks, YellowTicks))]
    /\ signal_states = [i \in GridIds |-> InitialSignalStates]
    /\ twin_states = << >>
    /\ active = << >>
    /\ published = << >>
    /\ last = [op |-> "init"]
    /\ IdleLookup
    /\ IdleSimulator

\* event_bus.publish(EmergencyDetected(...)): delivered to the manager's handler
Detected(v, i, d, t) ==
    LET event == EmergencyDetected(t, v, i, d, 0)
        r == on_emergency_detected(ctl, active, event)
    IN  /\ ctl' = r.controllers
        /\ active' = r.active
        /\ published' = <<event>> \o r.published
        /\ last' = [op |-> "detected", iid |-> i, event |-> event,
                    had_entry |-> i \in DOMAIN active]
        /\ UNCHANGED <<busVars, lookupVars, signal_states, twin_states, simVars>>

\* manager.release(i, t)
Release(i, t) ==
    LET r == release(ctl, active, i, t)
    IN  /\ ctl' = r.controllers
        /\ active' = r.active
        /\ published' = r.published
        /\ last' = [op |-> "release", iid |-> i, tick |-> t,
                    had_entry |-> i \in DOMAIN active]
        /\ UNCHANGED <<busVars, lookupVars, signal_states, twin_states, simVars>>

NextManager ==
    \/ \E v \in VehicleIds, i \in EventIds, d \in ApproachDirections,
          t \in 0..MaxEventTick : Detected(v, i, d, t)
    \/ \E i \in EventIds, t \in 0..MaxEventTick : Release(i, t)
    \/ \E i \in DOMAIN ctl, t \in 0..MaxTick : Update(i, t)

Spec == InitManager /\ [][NextManager]_vars

(***************************************************************************)
(* core/grid.py                                                            *)
(***************************************************************************)
\* core/road.py: Cell(index) and Road(road_id, from, to, num_cells) as
\* constructed; __post_init__ builds range(num_cells) empty cells and checks
\* nothing
Cell(index) == [index |-> index, vehicle |-> None]

Road(road_id, from_intersection, to_intersection, num_cells) ==
    [road_id |-> road_id, from_intersection |-> from_intersection,
     to_intersection |-> to_intersection, num_cells |-> num_cells,
     speed_limit |-> 1, cells |-> [k \in 1..num_cells |-> Cell(k - 1)]]

\* the intersection next to i in a heading
Toward(i, heading) ==
    CASE heading = "N" -> <<i[1] - 1, i[2]>>
      [] heading = "W" -> <<i[1], i[2] - 1>>
      [] heading = "S" -> <<i[1] + 1, i[2]>>
      [] heading = "E" -> <<i[1], i[2] + 1>>

\* RoadNetwork.create_grid(rows, cols, road_length): the intersections in
\* insertion order (row by row), their positions, the roads by road id
\* (R-<from>-<heading>), and each adjacency list in the order add_road fills
\* it: the roads to the north, west, south and east neighbour
create_grid(rows, cols, road_length) ==
    LET ids == {<<r, c>> : r \in 0..(rows - 1), c \in 0..(cols - 1)}
    IN  [intersections |->
            [k \in 1..(rows * cols) |-> <<(k - 1) \div cols, (k - 1) % cols>>],
         position |-> [i \in ids |-> [row |-> i[1], col |-> i[2]]],
         adjacency |->
            [i \in ids |->
                SelectSeq(<< <<i[1] - 1, i[2]>>, <<i[1], i[2] - 1>>,
                             <<i[1] + 1, i[2]>>, <<i[1], i[2] + 1>> >>,
                          LAMBDA n : n \in ids)],
         roads |->
            [rid \in {x \in ids \X {"N", "W", "S", "E"} : Toward(x[1], x[2]) \in ids}
                |-> Road(rid, rid[1], Toward(rid[1], rid[2]), road_length)]]

\* RoadNetwork.neighbors
neighbors(net, intersection_id) ==
    IF intersection_id \in DOMAIN net.adjacency
    THEN net.adjacency[intersection_id] ELSE << >>

RECURSIVE ScanNeighbors(_, _, _, _, _, _)
\* the for loop of shortest_path over the neighbours nbrs[k..] of the last
\* intersection of `path`
ScanNeighbors(to_id, path, nbrs, k, queue, visited) ==
    IF k > Len(nbrs) THEN [found |-> FALSE, queue |-> queue, visited |-> visited]
    ELSE IF nbrs[k] \in visited
    THEN ScanNeighbors(to_id, path, nbrs, k + 1, queue, visited)
    ELSE IF nbrs[k] = to_id
    THEN [found |-> TRUE, path |-> Append(path, nbrs[k])]
    ELSE ScanNeighbors(to_id, path, nbrs, k + 1,
                       Append(queue, Append(path, nbrs[k])),
                       visited \cup {nbrs[k]})

RECURSIVE SearchQueue(_, _, _, _)
\* the while loop of shortest_path
SearchQueue(net, to_id, queue, visited) ==
    IF queue = << >> THEN << >>
    ELSE LET path == Head(queue)
             r == ScanNeighbors(to_id, path, neighbors(net, path[Len(path)]), 1,
                                Tail(queue), visited)
         IN  IF r.found THEN r.path
             ELSE SearchQueue(net, to_id, r.queue, r.visited)

\* RoadNetwork.shortest_path
shortest_path(net, from_id, to_id) ==
    IF from_id = to_id THEN <<from_id>>
    ELSE SearchQueue(net, to_id, << <<from_id>> >>, {from_id})

(***************************************************************************)
(* core/vehicle.py                                                         *)
(***************************************************************************)
Vehicle(vehicle_id, origin, destination, spawn_tick) ==
    [vehicle_id |-> vehicle_id, origin |-> origin, destination |-> destination,
     vehicle_type |-> "CAR", current_road |-> None, current_cell |-> 0,
     spawn_tick |-> spawn_tick, arrived |-> FALSE, wait_ticks |-> 0]

EmergencyVehicle(vehicle_id, origin, destination, route, spawn_tick) ==
    [vehicle_id |-> vehicle_id, origin |-> origin, destination |-> destination,
     vehicle_type |-> "EMERGENCY", current_road |-> None, current_cell |-> 0,
     spawn_tick |-> spawn_tick, arrived |-> FALSE, wait_ticks |-> 0,
     route |-> route, preemption_lookahead |-> 2, route_index |-> 0]

\* EmergencyVehicle.next_intersection (route is indexed from 0 in the code)
next_intersection(v) ==
    IF v.route_index < Len(v.route) THEN v.route[v.route_index + 1] ELSE None

\* EmergencyVehicle.advance_route
advance_route(v) == [v EXCEPT !.route_index = v.route_index + 1]

(***************************************************************************)
(* engine/spawner.py                                                       *)
(***************************************************************************)
Range(seq) == {seq[k] : k \in DOMAIN seq}

\* VehicleSpawner._find_entry_points: the intersections on the boundary of the
\* bounding box of all positions, in the order of network.intersections
find_entry_points(net) ==
    IF net.intersections = << >> THEN << >>
    ELSE LET rows == {net.position[i].row : i \in Range(net.intersections)}
             cols == {net.position[i].col : i \in Range(net.intersections)}
             min_row == CHOOSE x \in rows : \A y \in rows : x <= y
             max_row == CHOOSE x \in rows : \A y \in rows : x >= y
             min_col == CHOOSE x \in cols : \A y \in cols : x <= y
             max_col == CHOOSE x \in cols : \A y \in cols : x >= y
         IN  SelectSeq(net.intersections,
                 LAMBDA i : \/ net.position[i].row \in {min_row, max_row}
                            \/ net.position[i].col \in {min_col, max_col})

RECURSIVE SpawnFrom_NumbersPerCall(_, _, _, _, _)
\* spawn naming its vehicles by the entry point's number in this call, not by
\* the counter
SpawnFrom_NumbersPerCall(net, entries, k, c, tick) ==
    IF k > Len(entries) THEN {[spawned |-> << >>, counter |-> c]}
    ELSE LET entry == entries[k]
             possible_dests == SelectSeq(entries, LAMBDA e : e # entry)
             skipped == SpawnFrom_NumbersPerCall(net, entries, k + 1, c, tick)
             rest == SpawnFrom_NumbersPerCall(net, entries, k + 1, c + 1, tick)
             made == { Vehicle(<<"V", k>>, entry, dest, tick)
                         : dest \in Range(possible_dests) }
                     \cup
                     { EmergencyVehicle(<<"EV", k>>, entry, dest,
                                        shortest_path(net, entry, dest), tick)
                         : dest \in Range(possible_dests) }
         IN  skipped \cup
             { [spawned |-> <<v>> \o r.spawned, counter |-> r.counter]
                 : v \in made, r \in rest }

RECURSIVE SpawnFrom(_, _, _, _, _)
\* VehicleSpawner.spawn from entry point number k on, with the counter at c:
\* every list of vehicles the random draws can produce, with the counter left.
\* At each entry point the draw against spawn_probability either skips it or
\* not; a destination is chosen among the other entry points; the draw
\* against emergency_probability makes the vehicle an emergency vehicle or not.
SpawnFrom(net, entries, k, c, tick) ==
    IF k > Len(entries) THEN {[spawned |-> << >>, counter |-> c]}
    ELSE LET entry == entries[k]
             possible_dests == SelectSeq(entries, LAMBDA e : e # entry)
             skipped == SpawnFrom(net, entries, k + 1, c, tick)
             rest == SpawnFrom(net, entries, k + 1, c + 1, tick)
             made == { Vehicle(<<"V", c + 1>>, entry, dest, tick)
                         : dest \in Range(possible_dests) }
                     \cup
                     { EmergencyVehicle(<<"EV", c + 1>>, entry, dest,
                                        shortest_path(net, entry, dest), tick)
                         : dest \in Range(possible_dests) }
         IN  skipped \cup
             { [spawned |-> <<v>> \o r.spawned, counter |-> r.counter]
                 : v \in made, r \in rest }

\* VehicleSpawner.spawn(tick)
spawn(net, c, tick) == SpawnFrom(net, find_entry_points(net), 1, c, tick)

(***************************************************************************)
(* engine/clock.py, engine/simulator.py                                    *)
(***************************************************************************)
\* advance that skips a tick number
advance_ByTwo(current_tick) == current_tick + 2

\* SimulationClock.advance: the new tick
advance(current_tick) == current_tick + 1

RECURSIVE Register(_, _)
\* `for v in new_vehicles: self._active_vehicles[v.vehicle_id] = v` on the
\* registry kept in insertion order: a vehicle whose id is already a key
\* replaces the one registered under it
Register(registry, new_vehicles) ==
    IF new_vehicles = << >> THEN registry
    ELSE LET v == Head(new_vehicles)
             at == {k \in DOMAIN registry : registry[k].vehicle_id = v.vehicle_id}
         IN  Register(IF at = {} THEN Append(registry, v)
                      ELSE [k \in DOMAIN registry |->
                               IF k \in at THEN v ELSE registry[k]],
                      Tail(new_vehicles))

SimulationState(tick, num_vehicles, num_arrived, num_waiting) ==
    [tick |-> tick, num_vehicles |-> num_vehicles, num_arrived |-> num_arrived,
     num_waiting |-> num_waiting]

\* Simulator.tick called on its own: advance the
\* clock, spawn, register the new vehicles, return the snapshot.  It calls no
\* detector, no preemption manager and no controller, and publishes nothing.
SimTick ==
    /\ clock < MaxClock
    /\ LET current_tick == advance(clock)
       IN  \E r \in spawn(network, counter, current_tick) :
              /\ clock' = current_tick
              /\ counter' = r.counter
              /\ active_vehicles' = Register(active_vehicles, r.spawned)
              /\ published' = << >>
              /\ last' = [op |-> "tick",
                          ret |-> SimulationState(current_tick,
                                      Len(active_vehicles'),
                                      Len(arrived_vehicles), 0)]
    /\ UNCHANGED <<busVars, lookupVars, ctl, signal_states, twin_states, active, network,
                   arrived_vehicles>>

(***************************************************************************)
(* The simulator ticking on a 1 x 1 grid beside a preemption manager over  *)
(* that intersection's controller.  Nothing but the caller of run decides  *)
(* when a tick happens, so ticks are weakly fair; EmergencyDetected events *)
(* and release calls come from outside the simulator and may or may not    *)
(* happen.                                                                 *)
(***************************************************************************)
InitTicking ==
    /\ IdleBus
    /\ network = create_grid(1, 1, MaxRoadLength)
    /\ ctl = [i \in Range(network.intersections) |->
                 FixedTimeController(default_four_way(GreenTicks, YellowTicks))]
    /\ signal_states = [i \in Range(network.intersections) |-> InitialSignalStates]
    /\ twin_states = << >>
    /\ active = << >>
    /\ published = << >>
    /\ last = [op |-> "init"]
    /\ clock = 0
    /\ counter = 0
    /\ active_vehicles = << >>
    /\ arrived_vehicles = << >>
    /\ IdleLookup

NextTicking ==
    \/ SimTick
    \/ \E v \in VehicleIds, i \in EventIds, d \in ApproachDirections :
          Detected(v, i, d, clock)
    \/ \E i \in EventIds : Release(i, clock)
    \/ \E i \in DOMAIN ctl : Update(i, clock)

SpecTicking == InitTicking /\ [][NextTicking]_vars /\ WF_vars(SimTick)

(***************************************************************************)
(* The one intersection of the 1 x 1 grid, whose controller is driven      *)
(* both by the preemption manager (EmergencyDetected events, release       *)
(* calls) and directly (request_preemption, release_preemption), with      *)
(* updates in any order between them.                                      *)
(***************************************************************************)
NextSignals ==
    \/ \E v \in VehicleIds, i \in EventIds, d \in ApproachDirections,
          t \in 0..MaxEventTick : Detected(v, i, d, t)
    \/ \E i \in EventIds, t \in 0..MaxEventTick : Release(i, t)
    \/ \E i \in DOMAIN ctl, t \in 0..MaxTick : Update(i, t)
    \/ \E i \in DOMAIN ctl, d \in Direction : RequestPreemption(i, d)
    \/ \E i \in DOMAIN ctl : ReleasePreemption(i)

SpecSignals == InitTicking /\ [][NextSignals]_vars

(***************************************************************************)
(* The simulator alone, driven by run(num_ticks) calls and single tick()   *)
(* calls, over a grid built by create_grid with any road_length in         *)
(* 0..MaxRoadLength or over a network without roads.  Single ticks are     *)
(* weakly fair.                                                            *)
(***************************************************************************)
GridShapes == {<<1, 1>>, <<1, 2>>}

SimulationResult(total_ticks, total_vehicles_spawned, total_vehicles_arrived, average_travel_ticks) ==
    [total_ticks |-> total_ticks,
     total_vehicles_spawned |-> total_vehicles_spawned,
     total_vehicles_arrived |-> total_vehicles_arrived,
     average_travel_ticks |-> average_travel_ticks]

\* the quotient num / den of a true division, kept exact
Quotient(num, den) == [num |-> num, den |-> den]

RECURSIVE total_travel(_, _, _)
\* run: sum(v.wait_ticks + (current_tick - v.spawn_tick)) over the first k
\* vehicles of the arrived registry
total_travel(arrived, k, current_tick) ==
    IF k = 0 THEN 0
    ELSE total_travel(arrived, k - 1, current_tick)
            + (arrived[k].wait_ticks + (current_tick - arrived[k].spawn_tick))

\* run after its loop: the SimulationResult it returns
run_result(current_tick, act, arrived) ==
    SimulationResult(current_tick, Len(act) + Len(arrived), Len(arrived),
        IF arrived # << >>
        THEN Quotient(total_travel(arrived, Len(arrived), current_tick), Len(arrived))
        ELSE Quotient(0, 1))

\* Simulator.tick on the simulator's state: every state the draws of spawn
\* can leave
Simulator_tick(net, st) ==
    { [clock |-> advance(st.clock), counter |-> r.counter,
       active_vehicles |-> Register(st.active_vehicles, r.spawned)]
        : r \in spawn(net, st.counter, advance(st.clock)) }

RECURSIVE RunTicks(_, _, _)
\* the loop of run, `for _ in range(num_ticks): self.tick()`: every state it
\* can leave
RunTicks(net, st, num_ticks) ==
    IF num_ticks <= 0 THEN {st}
    ELSE UNION { RunTicks(net, after, num_ticks - 1) : after \in Simulator_tick(net, st) }

\* Simulator.run(num_ticks)
Run(num_ticks) ==
    /\ clock + num_ticks <= MaxClock
    /\ \E st \in RunTicks(network,
                          [clock |-> clock, counter |-> counter,
                           active_vehicles |-> active_vehicles], num_ticks) :
          /\ clock' = st.clock
          /\ counter' = st.counter
          /\ active_vehicles' = st.active_vehicles
          /\ last' = [op |-> "run", num_ticks |-> num_ticks,
                      ret |-> run_result(st.clock, st.active_vehicles,
                                         arrived_vehicles)]
    /\ published' = << >>
    /\ UNCHANGED <<busVars, lookupVars, ctl, signal_states, twin_states, active,
                   network, arrived_vehicles>>

\* a RoadNetwork filled by add_intersection calls only, the intersection
\* <<r, c>> at Position(r, c): no road, every adjacency list empty
RoadlessNetwork(ids) ==
    [intersections |-> ids,
     position |-> [i \in Range(ids) |-> [row |-> i[1], col |-> i[2]]],
     adjacency |-> [i \in Range(ids) |-> << >>],
     roads |-> << >>]

\* the networks a simulator is constructed over
Networks ==
    { create_grid(shape[1], shape[2], road_length) :
          shape \in GridShapes, road_length \in 0..MaxRoadLength }
    \cup { RoadlessNetwork(<<I00, I01>>) }

InitSim ==
    /\ IdleBus
    /\ network \in Networks
    /\ clock = 0
    /\ counter = 0
    /\ active_vehicles = << >>
    /\ arrived_vehicles = << >>
    /\ IdleController
    /\ IdleLookup

NextSim ==
    \/ SimTick
    \/ \E num_ticks \in -1..MaxRunTicks : Run(num_ticks)

SpecSim == InitSim /\ [][NextSim]_vars /\ WF_vars(SimTick)

(***************************************************************************)
(* run over a simulator whose arrived registry holds vehicles.  No step of *)
(* the simulator retires a vehicle, so the registry is filled from         *)
(* outside: the simulator has ticked `now` times and each vehicle of       *)
(* the registry was spawned at one of these ticks and appended at that     *)
(* tick or a later one.  The tick of the append is kept beside the vehicle *)
(* (arrival_tick); the Vehicle of the code has no such field.              *)
(***************************************************************************)
ArrivedVehicle(n, spawn_tick, arrival_tick, wait_ticks) ==
    [vehicle_id |-> <<"V", n>>, origin |-> I00, destination |-> I01,
     vehicle_type |-> "CAR", current_road |-> None, current_cell |-> 0,
     spawn_tick |-> spawn_tick, arrived |-> TRUE, wait_ticks |-> wait_ticks,
     arrival_tick |-> arrival_tick]

ArrivedRegistries(now) ==
    LET histories == {h \in [spawn_tick : 1..now, arrival_tick : 1..now,
                             wait_ticks : 0..MaxWait] :
                         h.spawn_tick <= h.arrival_tick}
    IN  UNION { { [k \in 1..n |-> ArrivedVehicle(k, f[k].spawn_tick,
                                       f[k].arrival_tick, f[k].wait_ticks)]
                    : f \in [1..n -> histories] }
                : n \in 0..MaxArrived }

InitRun ==
    /\ IdleBus
    /\ network = create_grid(1, 2, MaxRoadLength)
    /\ clock \in 0..MaxClock
    /\ arrived_vehicles \in ArrivedRegistries(clock)
    /\ counter = Len(arrived_vehicles)
    /\ active_vehicles = << >>
    /\ IdleController
    /\ IdleLookup

SpecRun == InitRun /\ [][NextSim]_vars

(***************************************************************************)
(* One emergency vehicle and its route cursor: the vehicle as the spawner  *)
(* builds it on a grid (route = shortest path from an entry point to       *)
(* another), or built with the default empty route; advance_route and      *)
(* next_intersection called on it in any order.                            *)
(***************************************************************************)
RouteGridShapes == {<<1, 2>>, <<1, 3>>, <<2, 2>>, <<2, 3>>}

InitRoute ==
    /\ IdleBus
    /\ \E shape \in RouteGridShapes :
          network = create_grid(shape[1], shape[2], MaxRoadLength)
    /\ \E origin \in Range(find_entry_points(network)),
          destination \in Range(find_entry_points(network)) :
          /\ origin # destination
          /\ \E route \in {shortest_path(network, origin, destination), << >>} :
                active_vehicles =
                    << EmergencyVehicle(<<"EV", 1>>, origin, destination, route, 1) >>
    /\ clock = 0
    /\ counter = 0
    /\ arrived_vehicles = << >>
    /\ IdleController
    /\ IdleLookup

\* EmergencyDetector(network, event_bus).detection_range
detection_range == 20

\* EmergencyDetector.scan(tick, emergency_vehicles): the events it publishes;
\* its body is `pass`
scan(tick, emergency_vehicles) == << >>

\* detector.scan(clock, the active emergency vehicles)
Scan ==
    /\ published' = scan(clock, SelectSeq(active_vehicles,
                                    LAMBDA v : v.vehicle_type = "EMERGENCY"))
    /\ last' = [op |-> "scan", tick |-> clock]
    /\ UNCHANGED <<busVars, lookupVars, ctl, signal_states, twin_states, active,
                   simVars>>

\* vehicle.advance_route() on the k-th active vehicle
AdvanceRoute(k) ==
    /\ active_vehicles[k].route_index < MaxAdvance
    /\ active_vehicles' = [active_vehicles EXCEPT ![k] = advance_route(@)]
    /\ last' = [op |-> "advance_route", vehicle |-> k,
                was |-> active_vehicles[k].route_index]
    /\ UNCHANGED <<busVars, lookupVars, ctl, signal_states, twin_states, active, published,
                   network, clock, counter, arrived_vehicles>>

\* a read of vehicle.next_intersection on the k-th active vehicle
NextIntersection(k) ==
    /\ last' = [op |-> "next_intersection", vehicle |-> k,
                ret |-> next_intersection(active_vehicles[k])]
    /\ UNCHANGED <<busVars, lookupVars, ctl, signal_states, twin_states, active, published,
                   simVars>>

NextRoute ==
    \/ \E k \in DOMAIN active_vehicles : AdvanceRoute(k)
    \/ \E k \in DOMAIN active_vehicles : NextIntersection(k)
    \/ Scan

SpecRoute == InitRoute /\ [][NextRoute]_vars

(***************************************************************************)
(* emergency/router.py, and RoadNetwork built by hand.  Intersection ids   *)
(* are strings here, the empty string among them: nothing in the code      *)
(* rejects it.                                                             *)
(***************************************************************************)
Position(row, col) == [row |-> row, col |-> col]

\* RoadNetwork(): no intersection, no road, no adjacency list
RoadNetwork == [intersections |-> << >>, position |-> << >>,
                adjacency |-> << >>, roads |-> << >>]

\* RoadNetwork.add_intersection
add_intersection(net, intersection_id, position) ==
    [net EXCEPT
        !.intersections =
            IF intersection_id \in Range(net.intersections) THEN @
            ELSE Append(@, intersection_id),
        !.position = DictSet(@, intersection_id, position),
        !.adjacency =
            IF intersection_id \in DOMAIN @ THEN @
            ELSE DictSet(@, intersection_id, << >>)]

\* RoadNetwork.add_road
add_road(net, road) ==
    [net EXCEPT
        !.roads = DictSet(@, road.road_id, road),
        !.adjacency =
            DictSet(@, road.from_intersection,
                    Append(IF road.from_intersection \in DOMAIN @
                           THEN @[road.from_intersection] ELSE << >>,
                           road.to_intersection))]

\* bool(x) of an `IntersectionId | None`: None and the empty string are false
truthy(x) == x # None /\ x # ""

Route(vehicle_id, path) == [vehicle_id |-> vehicle_id, path |-> path]

\* EmergencyRouter.compute_route
compute_route(net, vehicle) ==
    LET origin == IF truthy(next_intersection(vehicle))
                  THEN next_intersection(vehicle) ELSE vehicle.origin
    IN  Route(vehicle.vehicle_id, shortest_path(net, origin, vehicle.destination))

(***************************************************************************)
(* A network built by hand: its intersections are added first, then roads  *)
(* are added one add_road call at a time (counter counts them), and        *)
(* shortest_path and compute_route are called on what has been built so    *)
(* far.  The calls ask for the way to "c", to an id the network does not   *)
(* have, or to the starting point itself: the networks range over every    *)
(* way of joining the four intersections by MaxRoads roads, so every pair  *)
(* of intersections occurs up to renaming.                                 *)
(***************************************************************************)
PathIds == << "", "a", "b", "c" >>
NoSuchId == "z"
Destination == "c"

RECURSIVE WithIntersections(_, _)
\* add_intersection for the first k ids of PathIds, in that order
WithIntersections(net, k) ==
    IF k = 0 THEN net
    ELSE add_intersection(WithIntersections(net, k - 1), PathIds[k], Position(0, k - 1))

\* the networks the road building starts from: intersections only, and one
\* that already has a road from "a" to itself and two roads from "a" to "b"
SeedNetworks ==
    LET bare == WithIntersections(RoadNetwork, Len(PathIds))
    IN  { bare,
          add_road(add_road(add_road(bare, Road(<<"a", "a", 1>>, "a", "a", 1)),
                            Road(<<"a", "b", 1>>, "a", "b", 1)),
                   Road(<<"a", "b", 2>>, "a", "b", 1)) }

InitPath ==
    /\ IdleBus
    /\ IdleController
    /\ IdleLookup
    /\ network \in SeedNetworks
    /\ clock = 0
    /\ counter = Cardinality(DOMAIN network.roads)
    /\ active_vehicles = << >>
    /\ arrived_vehicles = << >>

\* network.add_road(Road(...)) for a road between two different
\* intersections not yet joined in that direction
AddRoad(from_id, to_id) ==
    /\ counter < MaxRoads
    /\ from_id # to_id
    /\ to_id \notin Range(neighbors(network, from_id))
    /\ network' = add_road(network, Road(<<from_id, to_id, 0>>, from_id, to_id, 1))
    /\ counter' = counter + 1
    /\ last' = [op |-> "add_road"]
    /\ UNCHANGED <<busVars, lookupVars, ctl, signal_states, twin_states, active,
                   published, clock, active_vehicles, arrived_vehicles>>

\* network.shortest_path(from_id, to_id)
ShortestPath(from_id, to_id) ==
    /\ last' = [op |-> "shortest_path", from_id |-> from_id, to_id |-> to_id,
                ret |-> shortest_path(network, from_id, to_id)]
    /\ UNCHANGED <<busVars, lookupVars, ctl, signal_states, twin_states, active,
                   published, simVars>>

RECURSIVE Advanced(_, _)
\* the vehicle after n advance_route calls
Advanced(vehicle, n) ==
    IF n = 0 THEN vehicle ELSE advance_route(Advanced(vehicle, n - 1))

\* router.compute_route(vehicle) for an emergency vehicle that was given the
\* shortest path as its route and has passed `passed` intersections of it
ComputeRoute(origin, destination, passed) ==
    LET vehicle == Advanced(EmergencyVehicle(<<"EV", 1>>, origin, destination,
                               shortest_path(network, origin, destination), 0),
                            passed)
    IN  /\ passed <= Len(vehicle.route)
        /\ last' = [op |-> "compute_route", vehicle |-> vehicle,
                    ret |-> compute_route(network, vehicle)]
        /\ UNCHANGED <<busVars, lookupVars, ctl, signal_states, twin_states,
                       active, published, simVars>>

NextPath ==
    \/ \E from_id, to_id \in Range(PathIds) : AddRoad(from_id, to_id)
    \/ \E from_id \in Range(PathIds) \cup {NoSuchId} :
          \E to_id \in {Destination, NoSuchId, from_id} : ShortestPath(from_id, to_id)
    \/ \E origin \in Range(PathIds), passed \in 0..Len(PathIds) :
          ComputeRoute(origin, Destination, passed)

SpecPath == InitPath /\ [][NextPath]_vars

(***************************************************************************)
(* engine/events.py: the other events, and the EventBus.  A handler is     *)
(* named by who subscribed it: "manager" is                                *)
(* PreemptionManager._on_emergency_detected, "collector" is                *)
(* MetricsCollector._on_event, "recorder" appends what it receives to its   *)
(* own list, "leaver" unsubscribes itself from the event's kind, "remover" *)
(* unsubscribes "probe1" from it, "joiner" subscribes "probe2" for it, and *)
(* every other name is a subscriber that only receives.  A publish threads *)
(* the state the handlers write: the controllers, the Active Preemption    *)
(* map, the collector's summary, the bus's handler lists, the recorder's   *)
(* list, the events published so far, the handler invocations made so far  *)
(* and the exception that is propagating, if any.                          *)
(***************************************************************************)
SimulationEvent(tick) == [kind |-> "SimulationEvent", tick |-> tick]

VehicleSpawned(tick, vehicle_id, origin, destination, is_emergency) ==
    [kind |-> "VehicleSpawned", tick |-> tick, vehicle_id |-> vehicle_id,
     origin |-> origin, destination |-> destination, is_emergency |-> is_emergency]

VehicleArrived(tick, vehicle_id, destination, total_ticks) ==
    [kind |-> "VehicleArrived", tick |-> tick, vehicle_id |-> vehicle_id,
     destination |-> destination, total_ticks |-> total_ticks]

VehicleWaiting(tick, vehicle_id, intersection_id) ==
    [kind |-> "VehicleWaiting", tick |-> tick, vehicle_id |-> vehicle_id,
     intersection_id |-> intersection_id]

\* self._handlers.get(kind, [])
HandlersFor(hs, kind) == IF kind \in DOMAIN hs THEN hs[kind] ELSE << >>

\* EventBus.subscribe
subscribe(hs, event_type, handler) ==
    DictSet(hs, event_type, Append(HandlersFor(hs, event_type), handler))

\* list.remove(x): the list without the first occurrence of x
ListRemove(list, x) ==
    LET at == CHOOSE k \in DOMAIN list :
                  list[k] = x /\ \A j \in 1..(k - 1) : list[j] # x
    IN  [k \in 1..(Len(list) - 1) |-> IF k < at THEN list[k] ELSE list[k + 1]]

\* EventBus.unsubscribe: the defaultdict gets the key if it had none; remove
\* raises ValueError when the handler is not in the list
unsubscribe(hs, event_type, handler) ==
    LET list == HandlersFor(hs, event_type)
    IN  IF handler \in Range(list)
        THEN [handlers |-> DictSet(hs, event_type, ListRemove(list, handler)),
              err |-> None]
        ELSE [handlers |-> DictSet(hs, event_type, list), err |-> "ValueError"]

\* EventBus.clear
clear(hs) == << >>

MetricsSummary ==
    [total_vehicles_spawned |-> 0, total_vehicles_arrived |-> 0,
     total_emergency_vehicles |-> 0, total_wait_ticks |-> 0,
     total_travel_ticks |-> 0, total_preemptions |-> 0]

\* MetricsCollector._on_event: the summary it leaves
on_event(sm, event) ==
    CASE event.kind = "VehicleSpawned" ->
            [sm EXCEPT !.total_vehicles_spawned = @ + 1,
                       !.total_emergency_vehicles =
                            IF event.is_emergency THEN @ + 1 ELSE @]
      [] event.kind = "VehicleArrived" ->
            [sm EXCEPT !.total_vehicles_arrived = @ + 1,
                       !.total_travel_ticks = @ + event.total_ticks]
      [] event.kind = "VehicleWaiting" ->
            [sm EXCEPT !.total_wait_ticks = @ + 1]
      [] event.kind = "PreemptionStarted" ->
            [sm EXCEPT !.total_preemptions = @ + 1]
      [] OTHER -> sm

\* a collector handler that also drops the Active Preemption entries
collector_handler_Interfering(st, event) ==
    [st EXCEPT !.summary = on_event(@, event), !.active = << >>]

\* the collector's handler on the threaded state: it writes its summary only
collector_handler(st, event) == [st EXCEPT !.summary = on_event(@, event)]

\* a handler's call of bus.unsubscribe(kind, handler): the handler list it
\* leaves, and the ValueError of list.remove that leaves the handler
unsubscribing(st, event_type, handler) ==
    LET r == unsubscribe(st.handlers, event_type, handler)
    IN  [st EXCEPT !.handlers = r.handlers, !.err = r.err]

RECURSIVE Deliver(_, _, _)
RECURSIVE PublishAll(_, _)

\* the loop of EventBus.publish(event), `for handler in <the list of the
\* event's kind>`, from position k of that list on.  The loop reads the list
\* the bus keeps, not a copy: what a handler does to it is seen by the
\* following iterations.  An exception leaving a handler leaves the loop.  The
\* manager's handler publishes what it publishes before it returns, i.e.
\* before the next handler is invoked.
Deliver(st, event, k) ==
    LET list == HandlersFor(st.handlers, event.kind)
    IN  IF st.err # None \/ k > Len(list) THEN st
        ELSE LET called == [st EXCEPT !.delivered =
                               Append(@, [handler |-> list[k], event |-> event])]
                 after ==
                    CASE list[k] = "manager" ->
                            LET r == on_emergency_detected(called.controllers,
                                                           called.active, event)
                            IN  PublishAll([called EXCEPT !.controllers = r.controllers,
                                                          !.active = r.active],
                                           r.published)
                      [] list[k] = "collector" -> collector_handler(called, event)
                      [] list[k] = "recorder" -> [called EXCEPT !.log = Append(@, event)]
                      [] list[k] = "leaver" -> unsubscribing(called, event.kind, "leaver")
                      [] list[k] = "remover" -> unsubscribing(called, event.kind, "probe1")
                      [] list[k] = "joiner" ->
                            [called EXCEPT
                                !.handlers = subscribe(@, event.kind, "probe2")]
                      [] OTHER -> called
             IN  Deliver(after, event, k + 1)

\* publish delivering as well to the handlers subscribed for the base kind
publish_ToBaseKindToo(st, event) ==
    LET both == IF event.kind = "SimulationEvent" THEN st.handlers
                ELSE DictSet(st.handlers, event.kind,
                             HandlersFor(st.handlers, event.kind)
                                 \o HandlersFor(st.handlers, "SimulationEvent"))
        r == Deliver([st EXCEPT !.published = Append(@, event), !.handlers = both],
                     event, 1)
    IN  [r EXCEPT !.handlers = st.handlers]

\* EventBus.publish(event)
publish(st, event) ==
    Deliver([st EXCEPT !.published = Append(@, event)], event, 1)

\* publish called for each event of a list in turn, until one raises
PublishAll(st, events) ==
    IF events = << >> \/ st.err # None THEN st
    ELSE PublishAll(publish(st, Head(events)), Tail(events))

\* the state a call starts from
Threaded ==
    [controllers |-> ctl, active |-> active, summary |-> summary,
     handlers |-> handlers, log |-> log, err |-> None,
     published |-> << >>, delivered |-> << >>]

(***************************************************************************)
(* The EventBus alone: subscribers that only receive, subscribed for up to *)
(* MaxSubscriptions handlers a kind, unsubscribed, cleared, and events of  *)
(* each kind published, in any order.                                      *)
(***************************************************************************)
BusKinds == {"SimulationEvent", "VehicleSpawned", "VehicleWaiting"}
Probes == {"probe1", "probe2"}
BusEvents ==
    { SimulationEvent(0), VehicleSpawned(0, <<"V", 1>>, I00, I01, FALSE),
      VehicleWaiting(0, <<"V", 1>>, I00) }

InitBus ==
    /\ handlers = << >>
    /\ summary = MetricsSummary
    /\ delivered = << >>
    /\ log = << >>
    /\ ctl = << >>
    /\ signal_states = << >>
    /\ twin_states = << >>
    /\ active = << >>
    /\ published = << >>
    /\ last = [op |-> "init"]
    /\ IdleLookup
    /\ IdleSimulator

Subscribe(kind, h) ==
    /\ Len(HandlersFor(handlers, kind)) < MaxSubscriptions
    /\ handlers' = subscribe(handlers, kind, h)
    /\ published' = << >>
    /\ delivered' = << >>
    /\ last' = [op |-> "subscribe", kind |-> kind, handler |-> h]
    /\ UNCHANGED <<lookupVars, ctl, signal_states, twin_states, active, summary,
                   log, simVars>>

Unsubscribe(kind, h) ==
    LET r == unsubscribe(handlers, kind, h)
    IN  /\ handlers' = r.handlers
        /\ published' = << >>
        /\ delivered' = << >>
        /\ last' = [op |-> "unsubscribe", kind |-> kind, handler |-> h,
                    err |-> r.err,
                    count |-> Cardinality({k \in DOMAIN HandlersFor(handlers, kind) :
                                              HandlersFor(handlers, kind)[k] = h})]
        /\ UNCHANGED <<lookupVars, ctl, signal_states, twin_states, active, summary,
                       log, simVars>>

Clear ==
    /\ handlers' = clear(handlers)
    /\ published' = << >>
    /\ delivered' = << >>
    /\ last' = [op |-> "clear"]
    /\ UNCHANGED <<lookupVars, ctl, signal_states, twin_states, active, summary,
                   log, simVars>>

\* event_bus.publish(event)
Publish(event) ==
    LET r == publish(Threaded, event)
    IN  /\ ctl' = r.controllers
        /\ active' = r.active
        /\ summary' = r.summary
        /\ handlers' = r.handlers
        /\ log' = r.log
        /\ published' = r.published
        /\ delivered' = r.delivered
        /\ last' = [op |-> "publish", event |-> event, err |-> r.err,
                    before |-> HandlersFor(handlers, event.kind)]
        /\ UNCHANGED <<lookupVars, signal_states, twin_states, simVars>>

NextBus ==
    \/ \E kind \in BusKinds, h \in Probes : Subscribe(kind, h)
    \/ \E kind \in BusKinds, h \in Probes : Unsubscribe(kind, h)
    \/ Clear
    \/ \E event \in BusEvents : Publish(event)

SpecBus == InitBus /\ [][NextBus]_vars

(***************************************************************************)
(* The EventBus with subscribers that change the subscriptions of the kind *)
(* they are called for: handlers are subscribed and unsubscribed from      *)
(* outside, and an event is published to a list of at most                 *)
(* MaxSubscriptions handlers (a delivery to a "joiner" makes the list      *)
(* longer).                                                                *)
(***************************************************************************)
NextLive ==
    \/ \E h \in {"probe1", "probe2", "leaver", "remover", "joiner"} :
          Subscribe("VehicleWaiting", h)
    \/ \E h \in {"probe1", "probe2", "leaver", "remover", "joiner"} :
          Unsubscribe("VehicleWaiting", h)
    \/ /\ Len(HandlersFor(handlers, "VehicleWaiting")) <= MaxSubscriptions
       /\ Publish(VehicleWaiting(0, <<"V", 1>>, I00))

SpecLive == InitBus /\ [][NextLive]_vars

(***************************************************************************)
(* The simulator on a 1 x 1 grid with, on its bus, a PreemptionManager     *)
(* over the intersection's controller, a MetricsCollector and one more     *)
(* subscriber that only receives, constructed in any order.  Ticks,        *)
(* controller updates, events published on the bus and release calls in    *)
(* any order.  Each bus call is made as well on the same bus without the   *)
(* collector's subscriptions, from the same state, and the outcome kept.   *)
(***************************************************************************)
RECURSIVE SubscribeAll(_, _)
\* the subscribe calls of a list of (kind, handler) pairs, in order
SubscribeAll(hs, subscriptions) ==
    IF subscriptions = << >> THEN hs
    ELSE SubscribeAll(subscribe(hs, Head(subscriptions)[1], Head(subscriptions)[2]),
                      Tail(subscriptions))

\* PreemptionManager.__init__
ManagerSubscriptions == << <<"EmergencyDetected", "manager">> >>

\* MetricsCollector.__init__
CollectorSubscriptions ==
    << <<"VehicleSpawned", "collector">>, <<"VehicleArrived", "collector">>,
       <<"VehicleWaiting", "collector">>, <<"PreemptionStarted", "collector">>,
       <<"PreemptionEnded", "collector">> >>

ProbeSubscriptions ==
    << <<"EmergencyDetected", "probe1">>, <<"PreemptionStarted", "probe1">>,
       <<"PreemptionEnded", "probe1">>, <<"VehicleSpawned", "probe1">> >>

ConstructionOrders ==
    { ManagerSubscriptions \o CollectorSubscriptions \o ProbeSubscriptions,
      CollectorSubscriptions \o ManagerSubscriptions \o ProbeSubscriptions,
      ProbeSubscriptions \o CollectorSubscriptions \o ManagerSubscriptions,
      ProbeSubscriptions \o ManagerSubscriptions \o CollectorSubscriptions }

\* the bus without the collector's subscriptions
WithoutCollector(hs) ==
    [kind \in DOMAIN hs |-> SelectSeq(hs[kind], LAMBDA h : h # "collector")]

\* what a call leaves outside the collector
Outside(st) ==
    [controllers |-> st.controllers, active |-> st.active,
     published |-> st.published,
     delivered |-> SelectSeq(st.delivered, LAMBDA x : x.handler # "collector")]

\* the number of events the collector has counted
Counted(sm) ==
    sm.total_vehicles_spawned + sm.total_vehicles_arrived + sm.total_wait_ticks
        + sm.total_preemptions

MetricsEvents(t) ==
    { EmergencyDetected(t, v, i, d, 0) :
          v \in VehicleIds, i \in EventIds, d \in ApproachDirections }
    \cup { VehicleSpawned(t, <<"EV", 1>>, I00, I01, TRUE),
           VehicleArrived(t, <<"EV", 1>>, I01, 1),
           VehicleWaiting(t, <<"EV", 1>>, I00) }

InitMetrics ==
    /\ network = create_grid(1, 1, MaxRoadLength)
    /\ ctl = [i \in Range(network.intersections) |->
                 FixedTimeController(default_four_way(GreenTicks, YellowTicks))]
    /\ signal_states = [i \in Range(network.intersections) |-> InitialSignalStates]
    /\ twin_states = << >>
    /\ active = << >>
    /\ published = << >>
    /\ last = [op |-> "init"]
    /\ clock = 0
    /\ counter = 0
    /\ active_vehicles = << >>
    /\ arrived_vehicles = << >>
    /\ \E order \in ConstructionOrders : handlers = SubscribeAll(<< >>, order)
    /\ summary = MetricsSummary
    /\ delivered = << >>
    /\ log = << >>
    /\ IdleLookup

\* event_bus.publish(event), called from outside the manager and the collector
BusPublish(event) ==
    /\ Counted(summary) < MaxCounted
    /\ LET r == publish(Threaded, event)
           w == publish([Threaded EXCEPT !.handlers = WithoutCollector(@)], event)
       IN  /\ ctl' = r.controllers
           /\ active' = r.active
           /\ summary' = r.summary
           /\ handlers' = r.handlers
           /\ log' = r.log
           /\ published' = r.published
           /\ delivered' = r.delivered
           /\ last' = [op |-> "bus_publish", event |-> event, without |-> Outside(w)]
    /\ UNCHANGED <<lookupVars, signal_states, twin_states, simVars>>

\* manager.release(i, t), its PreemptionEnded going over the bus
BusRelease(i, t) ==
    LET rel == release(ctl, active, i, t)
        start == [Threaded EXCEPT !.controllers = rel.controllers,
                                  !.active = rel.active]
        r == PublishAll(start, rel.published)
        w == PublishAll([start EXCEPT !.handlers = WithoutCollector(@)],
                        rel.published)
    IN  /\ ctl' = r.controllers
        /\ active' = r.active
        /\ summary' = r.summary
        /\ handlers' = r.handlers
        /\ log' = r.log
        /\ published' = r.published
        /\ delivered' = r.delivered
        /\ last' = [op |-> "bus_release", iid |-> i, tick |-> t,
                    without |-> Outside(w)]
        /\ UNCHANGED <<lookupVars, signal_states, twin_states, simVars>>

NextMetrics ==
    \/ SimTick
    \/ \E event \in MetricsEvents(clock) : BusPublish(event)
    \/ \E i \in EventIds : BusRelease(i, clock)
    \/ \E i \in DOMAIN ctl : Update(i, clock)

SpecMetrics == InitMetrics /\ [][NextMetrics]_vars

(***************************************************************************)
(* One bus with a PreemptionManager over the controllers of a 1 x 2 grid,  *)
(* a MetricsCollector and a recording subscriber of PreemptionStarted and  *)
(* PreemptionEnded, constructed in any order before the first event.       *)
(* EmergencyDetected events (for the two intersections and for an id that  *)
(* has no controller) are published and release is called, in any order.   *)
(***************************************************************************)
InitAccounting ==
    /\ ctl = [i \in GridIds |->
                 FixedTimeController(default_four_way(GreenTicks, YellowTicks))]
    /\ signal_states = [i \in GridIds |-> InitialSignalStates]
    /\ twin_states = << >>
    /\ active = << >>
    /\ published = << >>
    /\ last = [op |-> "init"]
    /\ LET recorder == << <<"PreemptionStarted", "recorder">>,
                           <<"PreemptionEnded", "recorder">> >>
       IN  \E order \in
              { ManagerSubscriptions \o CollectorSubscriptions \o recorder,
                CollectorSubscriptions \o recorder \o ManagerSubscriptions,
                recorder \o ManagerSubscriptions \o CollectorSubscriptions } :
              handlers = SubscribeAll(<< >>, order)
    /\ summary = MetricsSummary
    /\ delivered = << >>
    /\ log = << >>
    /\ IdleLookup
    /\ IdleSimulator

NextAccounting ==
    \/ \E v \in VehicleIds, i \in EventIds :
          BusPublish(EmergencyDetected(0, v, i, "NORTH", 0))
    \/ \E i \in EventIds : BusRelease(i, clock)

SpecAccounting == InitAccounting /\ [][NextAccounting]_vars

\* the directions of intersection i that are not RED
Lit(i) == {d \in Direction : signal_states[i][d] \in {GREEN, YELLOW}}

\* intersection i shows direction d GREEN and every other direction RED
OnlyGreen(states, d) == states = [x \in Direction |-> IF x = d THEN GREEN ELSE RED]

Updated(i) == last.op = "update" /\ last.iid = i /\ last.err = None

(***************************************************************************)
(* C1  Signal exclusivity.  After every update(intersection, tick) that    *)
(* returns, whatever update / request_preemption / release_preemption      *)
(* calls came before, the directions that are GREEN or YELLOW are exactly  *)
(* the green directions of the phase active at that tick, in that phase's  *)
(* state, when no preemption is active, and exactly the preempted          *)
(* direction, GREEN, when one is; every other direction is RED.            *)
(***************************************************************************)
C1_SignalExclusivity ==
    \A i \in DOMAIN ctl : Updated(i) =>
        /\ \A d \in Direction \ Lit(i) : signal_states[i][d] = RED
        /\ IF ctl[i].preemption_active
           THEN /\ Lit(i) = {ctl[i].preemption_direction}
                /\ signal_states[i][ctl[i].preemption_direction] = GREEN
           ELSE LET ph == ctl[i].plan[phase_at_tick(ctl[i].plan, last.tick).index]
                IN  /\ Lit(i) = ph.green_directions
                    /\ \A d \in ph.green_directions : signal_states[i][d] = ph.state

\* an update in preemption mode at a tick whose phase lights other directions,
\* made after an earlier update had lit them
C1_Witness ==
    /\ Updated(I00)
    /\ last.prev = "request_preemption"
    /\ ctl[I00].preemption_active
    /\ phase_at_tick(ctl[I00].plan, last.tick).err = None
    /\ ctl[I00].plan[phase_at_tick(ctl[I00].plan, last.tick).index].green_directions = EW
    /\ ctl[I00].preemption_direction = "NORTH"
    /\ Lit(I00) = {"NORTH"}
    /\ twin_states[I00]["EAST"] # RED

(***************************************************************************)
(* C4  Release leaves no residual override.  For every plan and tick T,    *)
(* the update(intersection, T) that follows a release_preemption, and      *)
(* every update made outside preemption mode, has the outcome of           *)
(* update(intersection, T) of a controller with the same plan that was     *)
(* never preempted: the same phase returned (or the same error raised) and *)
(* the same signal states; and when it returns, the signal states are also *)
(* those of the twin intersection, whose controller received the same      *)
(* update calls and no preemption.                                         *)
(***************************************************************************)
C4_ReleaseLeavesNoOverride ==
    \A i \in DOMAIN ctl :
        (last.op = "update" /\ last.iid = i
            /\ (last.prev = "release_preemption" \/ ~ctl[i].preemption_active)) =>
        /\ last.err = last.fresh.err
        /\ last.ret = last.fresh.ret
        /\ signal_states[i] = last.fresh.states
        /\ last.err = None =>
              /\ last.ret = last.twin_ret
              /\ signal_states[i] = twin_states[i]

\* the update after the release of a preemption that was active and showing, at
\* a tick past the first cycle, lighting a YELLOW phase
C4_Witness ==
    /\ Updated(I00)
    /\ last.prev = "release_preemption"
    /\ last.prev_was_active
    /\ OnlyGreen(last.before, "EAST")
    /\ last.tick > cycle_length(ctl[I00].plan)
    /\ Lit(I00) = NS
    /\ last.ret.state = YELLOW

(***************************************************************************)
(* C7  A second request_preemption on a controller whose preemption is     *)
(* already active is a no-op: it leaves the honored direction as it was.   *)
(***************************************************************************)
C7_SecondRequestIsNoop ==
    [][(last'.op = "request_preemption" /\ last'.was_active) => ctl' = ctl]_vars

(***************************************************************************)
(* C8  The controller never ends a preemption by itself.  update leaves    *)
(* the preemption mode and the preempted direction as they are, and        *)
(* request_preemption(d) sets them to d; so from a request on, every       *)
(* update, at any tick, leaves the requested direction GREEN and every     *)
(* other direction RED, until another call than update is made.            *)
(***************************************************************************)
C8_UpdateKeepsPreemption ==
    [][\A i \in DOMAIN ctl :
        /\ (last'.op = "update" /\ last'.iid = i) =>
              /\ ctl'[i] = ctl[i]
              /\ ctl[i].preemption_active =>
                    /\ last'.err = None
                    /\ OnlyGreen(signal_states'[i], ctl[i].preemption_direction)
        /\ (last'.op = "request_preemption" /\ last'.iid = i) =>
              /\ ctl'[i].preemption_active
              /\ ctl'[i].preemption_direction = last'.direction
      ]_vars

\* a second update in a row in preemption mode, at a tick whose phase would
\* light other directions
C8_Witness ==
    /\ Updated(I00)
    /\ last.prev = "update"
    /\ last.tick = MaxTick
    /\ ctl[I00].preemption_active
    /\ ctl[I00].preemption_direction = "EAST"
    /\ OnlyGreen(signal_states[I00], "EAST")
    /\ twin_states[I00]["NORTH"] = YELLOW

(***************************************************************************)
(* C2  First-detected vehicle holds priority.  While an entry exists for   *)
(* intersection I, an EmergencyDetected event for I, for any vehicle and   *)
(* direction, leaves the entries and the controllers unchanged and         *)
(* publishes no PreemptionStarted.  An entry appears only by a detection   *)
(* at an intersection without one and names that detection's vehicle and   *)
(* direction; it changes or disappears only by a release of its            *)
(* intersection; so each intersection has at most one entry, that of the   *)
(* first vehicle detected since the last release.                          *)
(***************************************************************************)
C2_FirstDetectedHoldsPriority ==
    [][/\ (last'.op = "detected" /\ last'.iid \in DOMAIN active) =>
              /\ active' = active
              /\ ctl' = ctl
              /\ \A k \in DOMAIN published' : published'[k].kind # "PreemptionStarted"
       /\ \A i \in DOMAIN active' \ DOMAIN active :
              /\ last'.op = "detected"
              /\ last'.iid = i
              /\ active'[i] = [vehicle_id |-> last'.event.vehicle_id,
                               intersection_id |-> i,
                               direction |-> last'.event.approach_direction]
       /\ \A i \in DOMAIN active :
              (i \notin DOMAIN active' \/ active'[i] # active[i]) =>
                  (last'.op = "release" /\ last'.iid = i)
      ]_vars

\* a detection of the other vehicle, from the other direction, at an
\* intersection whose entry stays with the first vehicle
C2_Witness ==
    /\ last.op = "detected"
    /\ last.had_entry
    /\ last.iid = I00
    /\ last.event.vehicle_id = <<"EV", 2>>
    /\ last.event.approach_direction = "EAST"
    /\ active[I00].vehicle_id = <<"EV", 1>>
    /\ active[I00].direction = "NORTH"
    /\ ctl[I00].preemption_direction = "NORTH"
    /\ published = <<last.event>>

(***************************************************************************)
(* C3  Grant on first detection.  An EmergencyDetected event for an        *)
(* intersection that has a controller and no entry puts that controller in *)
(* preemption mode for the approach direction, records the entry (vehicle, *)
(* intersection, direction), leaves the other entries as they are and      *)
(* publishes exactly one PreemptionStarted, carrying the detection's tick; *)
(* the update of that controller that follows leaves the approach          *)
(* direction GREEN and every other direction RED, whatever the plan shows  *)
(* at that tick.                                                           *)
(***************************************************************************)
C3_GrantOnFirstDetection ==
    [][/\ (last'.op = "detected" /\ last'.iid \in DOMAIN ctl
              /\ last'.iid \notin DOMAIN active) =>
              LET e == last'.event
                  i == last'.iid
              IN  /\ ctl'[i].preemption_active
                  /\ ctl'[i].preemption_direction = e.approach_direction
                  /\ \A j \in DOMAIN ctl \ {i} : ctl'[j] = ctl[j]
                  /\ DOMAIN active' = DOMAIN active \cup {i}
                  /\ active'[i] = [vehicle_id |-> e.vehicle_id,
                                   intersection_id |-> i,
                                   direction |-> e.approach_direction]
                  /\ \A j \in DOMAIN active : active'[j] = active[j]
                  /\ published' =
                        << e, [kind |-> "PreemptionStarted", tick |-> e.tick,
                               vehicle_id |-> e.vehicle_id, intersection_id |-> i,
                               direction |-> e.approach_direction] >>
       /\ (last.op = "detected" /\ ~last.had_entry /\ last.iid \in DOMAIN ctl
              /\ last'.op = "update" /\ last'.iid = last.iid) =>
              /\ last'.err = None
              /\ OnlyGreen(signal_states'[last.iid], last.event.approach_direction)
      ]_vars

\* the update that follows a grant for EAST, at a tick where the plan has
\* NORTH and SOUTH green and EAST red
C3_Witness ==
    /\ last.op = "update"
    /\ last.prev_granted
    /\ last.iid = I00
    /\ I00 \in DOMAIN active
    /\ active[I00].direction = "EAST"
    /\ ctl[I00].plan[phase_at_tick(ctl[I00].plan, last.tick).index].green_directions = NS
    /\ OnlyGreen(signal_states[I00], "EAST")

(***************************************************************************)
(* C5  release(intersection_id, tick) on an intersection without an entry  *)
(* is a no-op: it publishes nothing and leaves the entries, every          *)
(* controller and every intersection's signal states unchanged.            *)
(***************************************************************************)
C5_ReleaseWithoutEntryIsNoop ==
    [][(last'.op = "release" /\ last'.iid \notin DOMAIN active) =>
          /\ published' = << >>
          /\ active' = active
          /\ ctl' = ctl
          /\ signal_states' = signal_states
      ]_vars

\* a release of an intersection without an entry while the other intersection
\* has one
C5_Witness ==
    /\ last.op = "release"
    /\ ~last.had_entry
    /\ last.iid = I00
    /\ I01 \in DOMAIN active
    /\ ctl[I01].preemption_active
    /\ published = << >>

(***************************************************************************)
(* C6  release(intersection_id, tick) on an intersection with an entry     *)
(* takes that intersection's controller out of preemption mode, removes    *)
(* the entry and publishes exactly one event, PreemptionEnded with the     *)
(* given tick, the intersection id and the vehicle id of the entry; the    *)
(* other entries and controllers are unchanged.                            *)
(***************************************************************************)
C6_ReleaseEndsPreemption ==
    [][(last'.op = "release" /\ last'.iid \in DOMAIN active) =>
          LET i == last'.iid
          IN  /\ i \in DOMAIN ctl =>
                    /\ ~ctl'[i].preemption_active
                    /\ ctl'[i].preemption_direction = None
                    /\ ctl'[i].plan = ctl[i].plan
              /\ \A j \in DOMAIN ctl \ {i} : ctl'[j] = ctl[j]
              /\ DOMAIN active' = DOMAIN active \ {i}
              /\ \A j \in DOMAIN active' : active'[j] = active[j]
              /\ published' =
                    << [kind |-> "PreemptionEnded", tick |-> last'.tick,
                        vehicle_id |-> active[i].vehicle_id,
                        intersection_id |-> i] >>
      ]_vars

\* a release of one of two preempted intersections
C6_Witness ==
    /\ last.op = "release"
    /\ last.had_entry
    /\ last.iid = I00
    /\ last.tick = MaxEventTick
    /\ I00 \notin DOMAIN active
    /\ I01 \in DOMAIN active
    /\ ~ctl[I00].preemption_active
    /\ ctl[I01].preemption_active
    /\ Len(published) = 1
    /\ published[1].kind = "PreemptionEnded"
    /\ published[1].vehicle_id = <<"EV", 2>>

(***************************************************************************)
(* C9  Emergency overrides are transient: under fair ticking, every        *)
(* Active Preemption entry that is created is eventually released (the     *)
(* entry removed and the controller back in normal mode).                  *)
(***************************************************************************)
C9_OverridesAreTransient ==
    \A i \in {I00} :
        (i \in DOMAIN active) ~> (i \notin DOMAIN active /\ ~ctl[i].preemption_active)

(***************************************************************************)
(* C11  Defensive fallback.  For every non-empty plan, plans whose         *)
(* durations are all 0 included, and every tick T, phase_at_tick(T)        *)
(* returns a phase of the plan and raises nothing; when no phase's         *)
(* cumulative end exceeds the offset (all durations 0) it is the last      *)
(* phase.                                                                  *)
(***************************************************************************)
C11_LookupNeverFailsOnNonEmptyPlan ==
    Len(plan) > 0 =>
        \A t \in DOMAIN lookups : Called(t) =>
            /\ lookups[t].err = None
            /\ lookups[t].index \in 1..Len(plan)
            /\ (\A j \in 1..Len(plan) : plan[j].duration = 0)
                  => lookups[t].index = Len(plan)

(***************************************************************************)
(* C12  An empty signal plan is rejected at configuration time: no update  *)
(* call of a controller, in normal or in preemption mode, operates on an   *)
(* empty plan.                                                             *)
(***************************************************************************)
C12_NoUpdateOnEmptyPlan ==
    \A i \in DOMAIN ctl :
        (last.op = "update" /\ last.iid = i) => Len(ctl[i].plan) > 0

(***************************************************************************)
(* C13  A road with zero cells is rejected at construction: no road of a   *)
(* network handed to the simulator has num_cells = 0 or an empty cell      *)
(* sequence.                                                               *)
(***************************************************************************)
C13_NoZeroCellRoad ==
    \A r \in DOMAIN network.roads :
        /\ network.roads[r].num_cells > 0
        /\ network.roads[r].cells # << >>

\* the indices of the occupied cells of a road
Occupied(road) == {k \in DOMAIN road.cells : road.cells[k].vehicle # None}

(***************************************************************************)
(* C16  Occupancy invariant.  After every tick, on every road the number   *)
(* of occupied cells is at most num_cells, no two active vehicles report   *)
(* the same (current_road, current_cell) pair, and every occupied cell's   *)
(* vehicle reports that road and that cell's index.                        *)
(***************************************************************************)
C16_OccupancyInvariant ==
    last.op = "tick" =>
        /\ \A r \in DOMAIN network.roads :
              Cardinality(Occupied(network.roads[r])) <= network.roads[r].num_cells
        /\ \A a, b \in DOMAIN active_vehicles :
              a # b =>
                  <<active_vehicles[a].current_road, active_vehicles[a].current_cell>>
                      # <<active_vehicles[b].current_road, active_vehicles[b].current_cell>>
        /\ \A r \in DOMAIN network.roads : \A k \in Occupied(network.roads[r]) :
              /\ network.roads[r].cells[k].vehicle.current_road = r
              /\ network.roads[r].cells[k].vehicle.current_cell
                    = network.roads[r].cells[k].index

\* vehicle `id` is in a registry
Registered(registry, id) == \E k \in DOMAIN registry : registry[k].vehicle_id = id

\* there is a way from origin to destination, and every road of the network
\* has cells and none of them is occupied
ClearPath(net, origin, destination) ==
    /\ shortest_path(net, origin, destination) # << >>
    /\ \A r \in DOMAIN net.roads :
          /\ net.roads[r].num_cells >= 1
          /\ Occupied(net.roads[r]) = {}

(***************************************************************************)
(* C17  Arrival.  Under fair ticking, a vehicle spawned at an entry        *)
(* intersection with a clear path to its destination (nothing is in its    *)
(* way: the simulator consults no signal and fills no cell) is eventually  *)
(* marked arrived, removed from the active registry and appended to the    *)
(* arrived registry.                                                       *)
(***************************************************************************)
C17_SpawnedVehicleArrives ==
    \A id \in {<<"V", 1>>} :
        (\E k \in DOMAIN active_vehicles :
            /\ active_vehicles[k].vehicle_id = id
            /\ active_vehicles[k].origin \in Range(find_entry_points(network))
            /\ ClearPath(network, active_vehicles[k].origin,
                         active_vehicles[k].destination))
            ~> /\ ~Registered(active_vehicles, id)
               /\ \E k \in DOMAIN arrived_vehicles :
                     /\ arrived_vehicles[k].vehicle_id = id
                     /\ arrived_vehicles[k].arrived

\* the controller of intersection i runs the default four-way plan
DefaultPlan(i) == ctl[i].plan = default_four_way(GreenTicks, YellowTicks)

(***************************************************************************)
(* C14  Conflicting-axis exclusion.  For an intersection driven by a       *)
(* FixedTimeController with the default four-way plan: all four directions *)
(* are RED before the first update (RED at construction, and no call but   *)
(* update writes the signal states); every update returns, and after it a  *)
(* north-south and an east-west direction are never both non-RED; after an *)
(* update in preemption mode only the preempted direction is non-RED.      *)
(* This under any interleaving of update, request_preemption and           *)
(* release_preemption.                                                     *)
(***************************************************************************)
C14_ConflictingAxisExclusion ==
    /\ DefaultPlan(I00) => signal_states[I00] = [d \in Direction |-> RED]
    /\ [][DefaultPlan(I00) =>
            /\ last'.op # "update" => signal_states'[I00] = signal_states[I00]
            /\ last'.op = "update" =>
                  /\ last'.err = None
                  /\ ~ /\ \E d \in NS : signal_states'[I00][d] # RED
                       /\ \E d \in EW : signal_states'[I00][d] # RED
                  /\ ctl'[I00].preemption_active =>
                        {d \in Direction : signal_states'[I00][d] # RED}
                            = {ctl'[I00].preemption_direction}
         ]_vars

\* an update of the default plan lights the east-west axis right after a
\* released preemption had left NORTH alone GREEN
C14_Witness ==
    /\ DefaultPlan(I00)
    /\ Updated(I00)
    /\ last.prev = "release_preemption"
    /\ OnlyGreen(last.before, "NORTH")
    /\ Lit(I00) = EW
    /\ signal_states[I00]["EAST"] = GREEN

(***************************************************************************)
(* C15  Tick ordering.  Every Simulator.tick updates every intersection's  *)
(* signal states for the current tick (after detection and preemption,     *)
(* before movement): when a tick returns, each intersection shows what its *)
(* controller's update for that tick produces.                             *)
(***************************************************************************)
C15_TickUpdatesSignals ==
    last.op = "tick" =>
        \A i \in DOMAIN ctl :
            LET r == update(ctl[i], signal_states[i], clock)
            IN  /\ r.err = None
                /\ signal_states[i] = r.states

RECURSIVE TravelTicks(_, _)
\* the sum over the first k arrived vehicles of
\* (arrival tick - spawn tick) + accumulated wait ticks
TravelTicks(arrived, k) ==
    IF k = 0 THEN 0
    ELSE TravelTicks(arrived, k - 1)
            + ((arrived[k].arrival_tick - arrived[k].spawn_tick) + arrived[k].wait_ticks)

C19_RouteCursorBounded ==
    \A k \in DOMAIN active_vehicles :
        /\ 0 <= active_vehicles[k].route_index
        /\ active_vehicles[k].route_index <= Len(active_vehicles[k].route)
        /\ (last.op = "advance_route" /\ last.vehicle = k)
              => last.was <= active_vehicles[k].route_index

(***************************************************************************)
(* C20  next_intersection is None exactly when route_index = len(route),   *)
(* and is route[route_index] otherwise.                                    *)
(***************************************************************************)
C20_NextIntersectionDefined ==
    last.op = "next_intersection" =>
        LET v == active_vehicles[last.vehicle]
        IN  /\ (last.ret = None) <=> (v.route_index = Len(v.route))
            /\ v.route_index # Len(v.route) => last.ret = v.route[v.route_index + 1]

(***************************************************************************)
(* C29  Lookup errors are no-ops.  An EmergencyDetected event naming an    *)
(* intersection id the manager has no controller for, and a release of     *)
(* such an id, change no controller, no Active Preemption entry and no     *)
(* signal state, and make the manager publish nothing.                     *)
(***************************************************************************)
C29_UnknownIntersectionIsNoop ==
    [][(last'.op \in {"detected", "release"} /\ last'.iid \notin DOMAIN ctl) =>
          /\ ctl' = ctl
          /\ active' = active
          /\ signal_states' = signal_states
          /\ published' = IF last'.op = "detected" THEN <<last'.event>> ELSE << >>
      ]_vars

\* an event for the unknown id delivered while another intersection is preempted
C29_Witness ==
    /\ last.op = "detected"
    /\ last.iid = UnknownId
    /\ published = <<last.event>>
    /\ UnknownId \notin DOMAIN active
    /\ DOMAIN active = {I01}

(***************************************************************************)
(* C30  Coordinator/authority agreement.  With the controllers driven only *)
(* through the PreemptionManager, after any sequence of EmergencyDetected  *)
(* events and release calls an intersection has an Active Preemption entry *)
(* exactly when its controller is in preemption mode, and then the         *)
(* controller's preempted direction is the entry's direction.              *)
(***************************************************************************)
C30_EntryIffPreemptionMode ==
    \A i \in DOMAIN ctl :
        /\ (i \in DOMAIN active) <=> ctl[i].preemption_active
        /\ i \in DOMAIN active => ctl[i].preemption_direction = active[i].direction
        /\ i \notin DOMAIN active => ctl[i].preemption_direction = None

\* one intersection just released while the other is still held for EAST
C30_Witness ==
    /\ last.op = "release"
    /\ last.iid = I01
    /\ last.had_entry
    /\ I00 \in DOMAIN active
    /\ active[I00].direction = "EAST"
    /\ ctl[I00].preemption_direction = "EAST"
    /\ ~ctl[I01].preemption_active

(***************************************************************************)
(* C21  Synchronous in-order delivery.  When publish(event) returns it has *)
(* invoked the handlers subscribed for exactly the event's kind, once per  *)
(* subscription and in subscription order, and no other handler (none     *)
(* subscribed only for another kind, the base kind included); after an     *)
(* unsubscribe(kind, h) that removed h's only subscription for the kind h  *)
(* is not subscribed for it, and after clear() nothing is subscribed, so   *)
(* that later publishes do not invoke it.                                  *)
(***************************************************************************)
C21_SynchronousInOrderDelivery ==
    /\ last.op = "publish" =>
          delivered = [k \in 1..Len(HandlersFor(handlers, last.event.kind)) |->
                          [handler |-> HandlersFor(handlers, last.event.kind)[k],
                           event |-> last.event]]
    /\ (last.op = "unsubscribe" /\ last.err = None /\ last.count = 1) =>
          last.handler \notin Range(HandlersFor(handlers, last.kind))
    /\ last.op = "clear" => \A kind \in BusKinds : HandlersFor(handlers, kind) = << >>

\* a VehicleSpawned event delivered to two subscribers in subscription order
\* while one of them is also subscribed for the base kind and the other for
\* another kind
C21_Witness ==
    /\ last.op = "publish"
    /\ last.event.kind = "VehicleSpawned"
    /\ Len(delivered) = 2
    /\ delivered[1].handler = "probe2"
    /\ delivered[2].handler = "probe1"
    /\ "probe1" \in Range(HandlersFor(handlers, "SimulationEvent"))
    /\ "probe2" \in Range(HandlersFor(handlers, "VehicleWaiting"))

(***************************************************************************)
(* C22  Metrics are passive.  Whatever ticks, updates, published events    *)
(* and release calls came before, a call on the bus with a                 *)
(* MetricsCollector subscribed leaves the controllers, the Active          *)
(* Preemption map, the events published and the sequence of deliveries to  *)
(* the other subscribers exactly as the same call does without the         *)
(* collector's subscriptions; the clock, the registries and the signal     *)
(* states are not written by a bus call at all.                            *)
(***************************************************************************)
C22_MetricsArePassive ==
    last.op \in {"bus_publish", "bus_release"} =>
        Outside([controllers |-> ctl, active |-> active, published |-> published,
                 delivered |-> delivered]) = last.without

\* an EmergencyDetected event is granted: the manager's PreemptionStarted
\* reaches the collector, then the other subscriber, before the other
\* subscriber receives the EmergencyDetected event itself
C22_Witness ==
    /\ last.op = "bus_publish"
    /\ last.event.kind = "EmergencyDetected"
    /\ I00 \in DOMAIN active
    /\ Len(delivered) = 4
    /\ delivered[1].handler = "manager"
    /\ delivered[2].handler = "collector"
    /\ delivered[3] = [handler |-> "probe1", event |-> delivered[2].event]
    /\ delivered[4] = [handler |-> "probe1", event |-> last.event]
    /\ summary.total_preemptions = 2
    /\ clock > 0

(***************************************************************************)
(* C23  Spawn notification.  For every vehicle the spawner creates in the  *)
(* tick numbered T, that tick publishes a VehicleSpawned event tagged T    *)
(* with the vehicle's id, origin, destination and emergency flag.          *)
(***************************************************************************)
C23_SpawnNotification ==
    last.op = "tick" =>
        \A k \in DOMAIN active_vehicles :
            active_vehicles[k].spawn_tick = clock =>
                \E j \in DOMAIN published :
                    published[j] =
                        VehicleSpawned(clock, active_vehicles[k].vehicle_id,
                                       active_vehicles[k].origin,
                                       active_vehicles[k].destination,
                                       active_vehicles[k].vehicle_type = "EMERGENCY")

(***************************************************************************)
(* C24  Detection.  scan(tick, vehicles) publishes exactly one             *)
(* EmergencyDetected event, tagged with the tick, for every given          *)
(* emergency vehicle that has a next intersection within detection_range   *)
(* cells, and none for a vehicle with no next intersection.  Stated for    *)
(* vehicles that stand at their next intersection, i.e. not yet on a road  *)
(* and with the cursor on their origin: distance 0.                        *)
(***************************************************************************)
C24_DetectionPublishes ==
    last.op = "scan" =>
        \A k \in DOMAIN active_vehicles :
            LET v == active_vehicles[k]
                found == {j \in DOMAIN published :
                             /\ published[j].kind = "EmergencyDetected"
                             /\ published[j].vehicle_id = v.vehicle_id}
            IN  IF /\ next_intersection(v) # None
                   /\ next_intersection(v) = v.origin
                   /\ v.current_road = None
                   /\ 0 <= detection_range
                THEN /\ Cardinality(found) = 1
                     /\ \A j \in found :
                           /\ published[j].tick = last.tick
                           /\ published[j].intersection_id = next_intersection(v)
                           /\ published[j].distance_cells = 0
                ELSE next_intersection(v) = None => found = {}

(***************************************************************************)
(* C25  Spawner output validity.  On any network, every vehicle spawn      *)
(* returns has an origin that is an intersection of the network with at    *)
(* least one outgoing road, and a destination different from its origin.   *)
(***************************************************************************)
C25_SpawnedVehiclesValid ==
    \A k \in DOMAIN active_vehicles :
        /\ active_vehicles[k].origin \in Range(network.intersections)
        /\ neighbors(network, active_vehicles[k].origin) # << >>
        /\ active_vehicles[k].destination # active_vehicles[k].origin

\* the vehicles of the registry `after` whose id is no key of `before`
NewlyRegistered(before, after) ==
    {k \in DOMAIN after : ~Registered(before, after[k].vehicle_id)}

(***************************************************************************)
(* C26  run(num_ticks) executes exactly num_ticks ticks (none when         *)
(* num_ticks <= 0), each tick advances the clock by exactly 1, total_ticks *)
(* is the number of ticks executed so far, ticks are numbered 1, 2, 3, ... *)
(* and a vehicle's spawn_tick is the number of the tick that registered    *)
(* it.                                                                     *)
(***************************************************************************)
C26_RunExecutesExactlyNumTicks ==
    [][ /\ last'.op = "run" =>
              /\ clock' = clock + (IF last'.num_ticks >= 0 THEN last'.num_ticks ELSE 0)
              /\ last'.ret.total_ticks = clock'
              /\ \A k \in NewlyRegistered(active_vehicles, active_vehicles') :
                    active_vehicles'[k].spawn_tick \in (clock + 1)..clock'
        /\ last'.op = "tick" =>
              /\ clock' = clock + 1
              /\ last'.ret.tick = clock'
              /\ \A k \in NewlyRegistered(active_vehicles, active_vehicles') :
                    active_vehicles'[k].spawn_tick = clock'
        /\ \A k \in DOMAIN active_vehicles' :
              /\ active_vehicles'[k].spawn_tick \in 1..clock'
              /\ \A j \in 1..(k - 1) :
                    active_vehicles'[j].spawn_tick <= active_vehicles'[k].spawn_tick
      ]_vars

\* a run of two ticks, made after an earlier tick, that registered vehicles
\* in both of its ticks
C26_Witness ==
    /\ last.op = "run"
    /\ last.num_ticks = 2
    /\ last.ret.total_ticks = 3
    /\ \E j, k \in DOMAIN active_vehicles :
          /\ active_vehicles[j].spawn_tick = 2
          /\ active_vehicles[k].spawn_tick = 3

(***************************************************************************)
(* C27  Vehicle conservation.  After any number of ticks, every vehicle    *)
(* the spawner has created is in exactly one of the active registry and    *)
(* the arrived registry, vehicle ids are pairwise distinct, and the        *)
(* total_vehicles_spawned that run reports equals the number of vehicles   *)
(* the spawner created.                                                    *)
(***************************************************************************)
C27_VehicleConservation ==
    /\ \A n \in 1..counter :
          Cardinality({k \in DOMAIN active_vehicles :
                          active_vehicles[k].vehicle_id[2] = n})
              + Cardinality({k \in DOMAIN arrived_vehicles :
                                arrived_vehicles[k].vehicle_id[2] = n}) = 1
    /\ \A j, k \in DOMAIN active_vehicles :
          j # k => active_vehicles[j].vehicle_id # active_vehicles[k].vehicle_id
    /\ \A j \in DOMAIN active_vehicles : \A k \in DOMAIN arrived_vehicles :
          active_vehicles[j].vehicle_id # arrived_vehicles[k].vehicle_id
    /\ Len(active_vehicles) + Len(arrived_vehicles) = counter
    /\ last.op = "run" => last.ret.total_vehicles_spawned = counter

\* a run that ended with three vehicles created in different ticks, an
\* ordinary one and an emergency one among them
C27_Witness ==
    /\ last.op = "run"
    /\ counter >= 3
    /\ last.ret.total_vehicles_spawned = counter
    /\ \E j, k \in DOMAIN active_vehicles :
          /\ active_vehicles[j].vehicle_type = "CAR"
          /\ active_vehicles[k].vehicle_type = "EMERGENCY"
          /\ active_vehicles[j].spawn_tick # active_vehicles[k].spawn_tick

\* there is a road from x to y
HasRoad(net, x, y) == y \in Range(neighbors(net, x))

\* the directed paths from from_id to to_id that visit no intersection twice
SimplePaths(net, from_id, to_id) ==
    LET ids == DOMAIN net.adjacency \cup {from_id, to_id}
    IN  { p \in UNION { [1..n -> ids] : n \in 1..Cardinality(ids) } :
            /\ p[1] = from_id
            /\ p[Len(p)] = to_id
            /\ \A k \in 1..(Len(p) - 1) : HasRoad(net, p[k], p[k + 1])
            /\ \A j, k \in DOMAIN p : j # k => p[j] # p[k] }

\* where y first stands in the adjacency list of x
AdjacencyIndex(net, x, y) ==
    CHOOSE k \in DOMAIN neighbors(net, x) :
        /\ neighbors(net, x)[k] = y
        /\ \A j \in 1..(k - 1) : neighbors(net, x)[j] # y

\* path p comes no later than path q of the same length when, at the first
\* hop where they differ, p takes the road listed earlier
NoLaterInAdjacencyOrder(net, p, q) ==
    \/ p = q
    \/ \E k \in 1..(Len(p) - 1) :
          /\ \A j \in 1..k : p[j] = q[j]
          /\ AdjacencyIndex(net, p[k], p[k + 1]) < AdjacencyIndex(net, q[k], q[k + 1])

\* the path the specification asks of shortest_path
FirstShortestPath(net, from_id, to_id) ==
    LET paths == SimplePaths(net, from_id, to_id)
    IN  IF paths = {} THEN << >>
        ELSE CHOOSE p \in paths :
                \A q \in paths :
                    /\ Len(p) <= Len(q)
                    /\ Len(p) = Len(q) => NoLaterInAdjacencyOrder(net, p, q)

(***************************************************************************)
(* C28  shortest_path returns [] exactly when no directed path exists, and *)
(* otherwise a path from `from` to `to` along roads that visits no         *)
(* intersection twice, has the fewest hops and, among those, is the one    *)
(* found first in adjacency-list order.  compute_route returns this path   *)
(* from the vehicle's next intersection (its origin when it has none) to   *)
(* its destination, empty when there is none.                              *)
(***************************************************************************)
C28_ShortestPathAndRoute ==
    /\ last.op = "shortest_path" =>
          LET paths == SimplePaths(network, last.from_id, last.to_id)
          IN  /\ (last.ret = << >>) <=> (paths = {})
              /\ last.ret # << >> =>
                    /\ last.ret \in paths
                    /\ \A q \in paths : Len(last.ret) <= Len(q)
                    /\ last.ret = FirstShortestPath(network, last.from_id, last.to_id)
    /\ last.op = "compute_route" =>
          LET v == last.vehicle
              start == IF v.route_index < Len(v.route)
                       THEN v.route[v.route_index + 1] ELSE v.origin
          IN  /\ last.ret.vehicle_id = v.vehicle_id
              /\ last.ret.path = FirstShortestPath(network, start, v.destination)

(***************************************************************************)
(* C31  Preemption event accounting.  After any sequence of                *)
(* EmergencyDetected events and release calls on one bus, the              *)
(* PreemptionStarted events published outnumber the PreemptionEnded events *)
(* by the number of Active Preemption entries; per intersection the two    *)
(* kinds alternate, PreemptionStarted first, each PreemptionEnded naming   *)
(* the vehicle of the PreemptionStarted before it; and the collector's     *)
(* total_preemptions is the number of PreemptionStarted events.            *)
(***************************************************************************)
C31_PreemptionEventAccounting ==
    LET CountKind(kind) == Cardinality({k \in DOMAIN log : log[k].kind = kind})
    IN
    /\ CountKind("PreemptionStarted") - CountKind("PreemptionEnded")
          = Cardinality(DOMAIN active)
    /\ \A i \in EventIds :
          LET at == SelectSeq(log, LAMBDA e : e.intersection_id = i)
          IN  \A k \in DOMAIN at :
                 /\ at[k].kind = IF k % 2 = 1 THEN "PreemptionStarted"
                                 ELSE "PreemptionEnded"
                 /\ k % 2 = 0 => at[k].vehicle_id = at[k - 1].vehicle_id
    /\ summary.total_preemptions = CountKind("PreemptionStarted")
    /\ \A k \in DOMAIN published :
          published[k].kind \in {"PreemptionStarted", "PreemptionEnded"}
              => published[k] \in Range(log)

\* one intersection preempted, released and preempted again for the other
\* vehicle, then released
C31_Witness ==
    /\ Len(log) = 4
    /\ \A k \in DOMAIN log : log[k].intersection_id = I00
    /\ log[1].vehicle_id # log[3].vehicle_id
    /\ log[4].kind = "PreemptionEnded"
    /\ summary.total_preemptions = 2
    /\ active = << >>

(***************************************************************************)
(* C32  Notification order follows occurrence order.  When the manager     *)
(* publishes PreemptionStarted while it handles an EmergencyDetected       *)
(* event, every consumer subscribed to both kinds receives the             *)
(* EmergencyDetected event before the PreemptionStarted event it caused,   *)
(* whatever the order in which the consumer and the manager subscribed.    *)
(***************************************************************************)
C32_CauseDeliveredBeforeEffect ==
    (last.op = "bus_publish" /\ last.event.kind = "EmergencyDetected") =>
        \A h \in (Range(HandlersFor(handlers, "EmergencyDetected"))
                   \cap Range(HandlersFor(handlers, "PreemptionStarted")))
                  \ {"manager"} :
            \A j, k \in DOMAIN delivered :
                (/\ delivered[j] = [handler |-> h, event |-> last.event]
                 /\ delivered[k].handler = h
                 /\ delivered[k].event.kind = "PreemptionStarted")
                    => j < k

(***************************************************************************)
(* C33  Delivery is robust to subscription changes made by handlers.       *)
(* During one publish(event), every handler that was subscribed (once) for *)
(* the event's kind when publish was called, and whose subscription no     *)
(* handler changed during the delivery, is invoked exactly once, also when *)
(* some handler unsubscribes itself or an earlier handler, or subscribes a *)
(* handler, for that kind while the event is delivered.                    *)
(***************************************************************************)
C33_DeliveryRobustToSubscriptionChanges ==
    last.op = "publish" =>
        LET after == HandlersFor(handlers, last.event.kind)
            Occurrences(list, h) == Cardinality({k \in DOMAIN list : list[k] = h})
            Invocations(h) ==
                Cardinality({k \in DOMAIN delivered : delivered[k].handler = h})
        IN  \A h \in Range(last.before) :
                (Occurrences(last.before, h) = 1 /\ Occurrences(after, h) = 1)
                    => Invocations(h) = 1

\* the step is a release, by the manager or directly, of a preemption that
\* intersection i's controller was holding
ReleasesHeld(i) ==
    /\ ctl[i].preemption_active
    /\ ctl[i].preemption_direction # None
    /\ \/ last'.op = "release" /\ last'.iid = i /\ last'.had_entry
       \/ last'.op = "release_preemption" /\ last'.iid = i /\ last'.was_active

\* no step but an update writes signal states, and an update of i writes
\* those of i alone: the preempted direction GREEN and the others RED when
\* the controller holds a preemption, the plan's phase otherwise
UpdateAloneWritesSignals ==
    /\ last'.op # "update" => signal_states' = signal_states
    /\ last'.op = "update" =>
          /\ \A i \in DOMAIN signal_states \ {last'.iid} :
                signal_states'[i] = signal_states[i]
          /\ ctl[last'.iid].preemption_active =>
                OnlyGreen(signal_states'[last'.iid],
                          ctl[last'.iid].preemption_direction)
          /\ ~ctl[last'.iid].preemption_active =>
                /\ last'.ret \in Range(ctl[last'.iid].plan)
                /\ signal_states'[last'.iid] =
                      [d \in Direction |->
                          IF d \in last'.ret.green_directions
                          THEN last'.ret.state ELSE RED]

(***************************************************************************)
(* C34  Only update writes signals.  request_preemption,                   *)
(* release_preemption, EmergencyDetected handling and release leave every  *)
(* intersection's signal_states unchanged; a granted preemption shows      *)
(* (its direction GREEN, all others RED) and a released one stops showing  *)
(* only at the next update of that controller.  After the release of a     *)
(* preemption that an update had made visible, the intersection still      *)
(* shows the preempted direction GREEN and all others RED.                 *)
(***************************************************************************)
C34_OnlyUpdateWritesSignals ==
    [][ /\ UpdateAloneWritesSignals
        /\ \A i \in DOMAIN ctl :
              (/\ ReleasesHeld(i)
               /\ \/ Updated(i)
                  \/ OnlyGreen(signal_states[i], ctl[i].preemption_direction)) =>
                  OnlyGreen(signal_states'[i], ctl[i].preemption_direction)
      ]_vars

\* a preemption granted by the manager, made visible by an update and then
\* released: the intersection still shows it
C34_Witness ==
    /\ last.op = "release"
    /\ last.had_entry
    /\ ~ctl[I00].preemption_active
    /\ OnlyGreen(signal_states[I00], "EAST")

\* C34 as stated: after every release of a held preemption the intersection
\* shows the preempted direction GREEN and all others RED, whether or not the
\* controller was updated while the preemption was held
C34_ReleasedPreemptionStillShown ==
    [][ /\ UpdateAloneWritesSignals
        /\ \A i \in DOMAIN ctl :
              ReleasesHeld(i) =>
                  OnlyGreen(signal_states'[i], ctl[i].preemption_direction)
      ]_vars

====
